---- MODULE Spec2Model ----
(***************************************************************************)
(* A model of the USDA report parser (src/pdf_parser.py), of the price     *)
(* table (src/database.py) and of the pipeline (src/main.py).              *)
(*                                                                         *)
(* Text lines are TLA+ strings; a character is a string of length 1,       *)
(* read with SubSeq(s, i, i).  The regular expressions of the parser are   *)
(* matched character by character, with Python's priorities (a lazy group  *)
(* takes the shortest text that lets the rest match, a greedy run the      *)
(* longest).  Lines hold no newline: they come from text.split('\n').      *)
(***************************************************************************)
EXTENDS Integers, Sequences, FiniteSets, TLC

\* ------------------------------------------------------------------------
\* Characters and strings (Python str methods and regex classes)
\* ------------------------------------------------------------------------

\* the character at position i of s (1-based)
Ch(s, i) == SubSeq(s, i, i)

SetMin(S) == CHOOSE x \in S : \A y \in S : x <= y

SetMax(S) == CHOOSE x \in S : \A y \in S : x >= y

\* \s of the regular expressions, and what str.strip() removes
WHITESPACE == {" ", "\t"}

\* \d
DIGITS == {"0", "1", "2", "3", "4", "5", "6", "7", "8", "9"}

\* [\d,] : the class of the pounds column
POUNDS_CHARS == DIGITS \cup {","}

\* [\d,.] widened by the minus sign: a variant of the price class
PRICE_CHARS_with_hyphen == DIGITS \cup {",", ".", "-"}

\* [\d,.] : the class of the three price columns
PRICE_CHARS == DIGITS \cup {",", "."}

UPPER == <<"A","B","C","D","E","F","G","H","I","J","K","L","M",
           "N","O","P","Q","R","S","T","U","V","W","X","Y","Z">>

LOWER == <<"a","b","c","d","e","f","g","h","i","j","k","l","m",
           "n","o","p","q","r","s","t","u","v","w","x","y","z">>

LowerChar(c) ==
    IF \E k \in 1..26 : UPPER[k] = c
    THEN LOWER[CHOOSE k \in 1..26 : UPPER[k] = c]
    ELSE c

\* str.lower()
RECURSIVE lower(_)
lower(s) ==
    IF Len(s) = 0 THEN ""
    ELSE IF Len(s) = 1 THEN LowerChar(s)
    ELSE LET h == Len(s) \div 2
         IN  lower(SubSeq(s, 1, h)) \o lower(SubSeq(s, h + 1, Len(s)))

\* str.strip()
strip(s) ==
    LET keep == {i \in 1..Len(s) : Ch(s, i) \notin WHITESPACE}
    IN  IF keep = {} THEN "" ELSE SubSeq(s, SetMin(keep), SetMax(keep))

\* kw in s
Contains(s, kw) ==
    \E i \in 1..(Len(s) - Len(kw) + 1) : SubSeq(s, i, i + Len(kw) - 1) = kw

\* s.startswith(p)
startswith(s, p) == Len(s) >= Len(p) /\ SubSeq(s, 1, Len(p)) = p

\* s.endswith(p)
endswith(s, p) == Len(s) >= Len(p) /\ SubSeq(s, Len(s) - Len(p) + 1, Len(s)) = p

\* the characters of s that are not in cls, in order (re.sub(cls, '', s))
RECURSIVE RemoveChars(_, _)
RemoveChars(s, cls) ==
    IF Len(s) = 0 THEN ""
    ELSE IF Len(s) = 1 THEN (IF s \in cls THEN "" ELSE s)
    ELSE LET h == Len(s) \div 2
         IN  RemoveChars(SubSeq(s, 1, h), cls) \o RemoveChars(SubSeq(s, h + 1, Len(s)), cls)

\* the end of the longest run of characters of cls that starts at p:
\* the run is s[p .. RunEnd-1] (empty when RunEnd = p)
RunEnd(s, p, cls) ==
    SetMin({q \in p..(Len(s) + 1) : q = Len(s) + 1 \/ Ch(s, q) \notin cls})

\* len(s.split()): the number of whitespace-separated words
WordCount(s) ==
    Cardinality({i \in 1..Len(s) :
                    /\ Ch(s, i) \notin WHITESPACE
                    /\ (i = 1 \/ Ch(s, i - 1) \in WHITESPACE)})

\* ------------------------------------------------------------------------
\* Sequential matching of a regular expression's tail
\* ------------------------------------------------------------------------
(* A pattern is a sequence of items: Plus(cls) and Star(cls) are greedy    *)
(* runs of at least one / of any number of characters of cls, One(cls) is  *)
(* exactly one character.  Neighbouring classes of the parser's patterns   *)
(* are disjoint, so a greedy run is forced to its full length and the      *)
(* match from a given start is unique.  MatchRuns returns the start of     *)
(* each item followed by the end of the last one, or <<>> when the pattern *)
(* does not match s from p to the end of s ($).                            *)
Plus(cls) == [cls |-> cls, min |-> 1, one |-> FALSE]

Star(cls) == [cls |-> cls, min |-> 0, one |-> FALSE]

One(cls) == [cls |-> cls, min |-> 1, one |-> TRUE]

RECURSIVE MatchRuns(_, _, _)
MatchRuns(s, p, pat) ==
    IF pat = <<>> THEN (IF p = Len(s) + 1 THEN <<p>> ELSE <<>>)
    ELSE LET run == RunEnd(s, p, Head(pat).cls)
             q   == IF Head(pat).one /\ run > p THEN p + 1 ELSE run
         IN  IF q - p < Head(pat).min THEN <<>>
             ELSE LET rest == MatchRuns(s, q, Tail(pat))
                  IN  IF rest = <<>> THEN <<>> ELSE <<p>> \o rest

\* ------------------------------------------------------------------------
\* Numbers (PDFParser._extract_number)
\* ------------------------------------------------------------------------
(* A Python value is kept as a string: an int as its decimal digits, a     *)
(* float as digits "." digits (the integer part without leading zeros, the *)
(* fraction without trailing zeros, "0" when none is left, so that         *)
(* "1,266.00" and "1266.0" denote the same value) or "inf", and None as a  *)
(* string no text of the parser can equal: every text it stores is a       *)
(* stripped line, a \S+ token or a literal of the code, and none of those  *)
(* starts with a space.  float() of a literal of 2^1024 - 2^970 or more is *)
(* inf; rounding to 53 bits is not modelled otherwise.                     *)
None == " None"

\* raised by int(float('inf')); _extract_number catches ValueError only
OverflowError == " OverflowError"

DigitValue(c) == CHOOSE k \in 0..9 : Ch("0123456789", k + 1) = c

\* the least integer literal that float() rounds to inf: 2^1024 - 2^970
FLOAT_OVERFLOW ==
    "17976931348623158079372897140530341507993413271003782693617377" \o
    "89804449682927647509466490179775872070963302864166928879109465" \o
    "55547851940402630657488671505820681908902000708383676273854845" \o
    "81771153176447573027006985557136695962284291481986083493647529" \o
    "2719074168444365510704342711559699508093042880177904174497792"

\* a >= b for two digit strings without leading zeros
DigitsGE(a, b) ==
    \/ Len(a) > Len(b)
    \/ /\ Len(a) = Len(b)
       /\ LET diff == {i \in 1..Len(a) : Ch(a, i) # Ch(b, i)}
          IN  diff = {} \/ DigitValue(Ch(a, SetMin(diff))) > DigitValue(Ch(b, SetMin(diff)))

StripLeadingZeros(d) ==
    LET nz == {i \in 1..Len(d) : Ch(d, i) # "0"}
    IN  IF nz = {} THEN "0" ELSE SubSeq(d, SetMin(nz), Len(d))

StripTrailingZeros(d) ==
    LET nz == {i \in 1..Len(d) : Ch(d, i) # "0"}
    IN  IF nz = {} THEN "" ELSE SubSeq(d, 1, SetMax(nz))

\* float(lit) for a literal -?\d+\.?\d* given as sign, integer digits, fraction digits
float(neg, idigits, fdigits) ==
    LET ip == StripLeadingZeros(idigits)
        fp == StripTrailingZeros(fdigits)
    IN  (IF neg THEN "-" ELSE "") \o
        (IF DigitsGE(ip, FLOAT_OVERFLOW) THEN "inf"
         ELSE ip \o "." \o (IF fp = "" THEN "0" ELSE fp))

\* int(v) of a float: truncation towards zero; OverflowError on inf
int(v) ==
    LET neg == Ch(v, 1) = "-"
        mag == IF neg THEN SubSeq(v, 2, Len(v)) ELSE v
        ip  == SubSeq(mag, 1, RunEnd(mag, 1, DIGITS) - 1)
    IN  IF mag = "inf" THEN OverflowError
        ELSE (IF neg /\ ip # "0" THEN "-" ELSE "") \o ip

\* "is not None" in place of truthiness: a variant of the test of line 432
Truthy_is_not_none(v) == v # None

\* Python truthiness of a number or None: None and zero are false
Truthy(v) == v \notin {None, "0", "0.0", "-0.0"}

\* re.sub(r'[$,\s]', '', text) removes these
CLEANED_CHARS == {"$", ","} \cup WHITESPACE

\* int(number) if is_integer else number
Convert(number, is_integer) == IF is_integer THEN int(number) ELSE number

\* float(match.group()) for the match -?\d+\.?\d* whose digits start at d0
\* and whose integer part ends before d1
NumberFrom(cleaned, neg, d0, d1) ==
    IF d1 <= Len(cleaned) /\ Ch(cleaned, d1) = "."
    THEN float(neg, SubSeq(cleaned, d0, d1 - 1),
               SubSeq(cleaned, d1 + 1, RunEnd(cleaned, d1 + 1, DIGITS) - 1))
    ELSE float(neg, SubSeq(cleaned, d0, d1 - 1), "")

\* the match of -?\d+\.?\d* that starts at st
NumberAt(cleaned, st) ==
    IF Ch(cleaned, st) = "-"
    THEN NumberFrom(cleaned, TRUE, st + 1, RunEnd(cleaned, st + 1, DIGITS))
    ELSE NumberFrom(cleaned, FALSE, st, RunEnd(cleaned, st, DIGITS))

\* where re.search(r'-?\d+\.?\d*', cleaned) can start a match
NumberStarts(cleaned) ==
    {i \in 1..Len(cleaned) :
        \/ Ch(cleaned, i) \in DIGITS
        \/ /\ Ch(cleaned, i) = "-"
           /\ i < Len(cleaned)
           /\ Ch(cleaned, i + 1) \in DIGITS}

\* re.search takes the leftmost match
SearchNumber(cleaned, starts, is_integer) ==
    IF starts = {} THEN None
    ELSE Convert(NumberAt(cleaned, SetMin(starts)), is_integer)

SearchCleaned(cleaned, is_integer) ==
    SearchNumber(cleaned, NumberStarts(cleaned), is_integer)

_extract_number(text, is_integer) ==
    IF text = "" THEN None
    ELSE SearchCleaned(RemoveChars(text, CLEANED_CHARS), is_integer)

\* ------------------------------------------------------------------------
\* Line grammars
\* ------------------------------------------------------------------------
(* A grammar returns a record with outcome "dict" (the line matched, with  *)
(* its fields), "None" (no match) or "raise" (a number conversion raised). *)

\* \s*-\s*([\d,.]+)\s+([\d,.]+)\s*$ preceded by \s+([\d,]+)\s+([\d,.]+):
\* the columns POUNDS LOW - HIGH AVERAGE shared by the three patterns
PRICE_COLUMNS ==
    << Plus(WHITESPACE), Plus(POUNDS_CHARS),
       Plus(WHITESPACE), Plus(PRICE_CHARS),
       Star(WHITESPACE), One({"-"}), Star(WHITESPACE), Plus(PRICE_CHARS),
       Plus(WHITESPACE), Plus(PRICE_CHARS), Star(WHITESPACE) >>

\* \s+(\d+) before the price columns: the trades column
TRADES_COLUMNS == << Plus(WHITESPACE), Plus(DIGITS) >> \o PRICE_COLUMNS

\* the text of item k of a match m (as MatchRuns returns it)
Group(s, m, k) == SubSeq(s, m[k], m[k + 1] - 1)

\* the end of a lazy group (.+?) that starts at st and is followed by cols:
\* the least en > st from which cols matches to the end of s; 0 if none
LazyEnd(s, st, cols) ==
    LET ends == {en \in (st + 1)..Len(s) : MatchRuns(s, en, cols) # <<>>}
    IN  IF ends = {} THEN 0 ELSE SetMin(ends)

NoMatch == [outcome |-> "None"]

Raise == [outcome |-> "raise"]

\* a match raises when a conversion of its number groups does
Outcome(dict, integers) ==
    IF OverflowError \in integers THEN Raise ELSE dict

\* the dict _parse_data_line returns: code = group 1, desc = group 3 and
\* m the match of the columns after it
DataLineDict(s, code, desc, m) ==
    [outcome      |-> "dict",
     imps_code    |-> code,
     description  |-> strip(desc),
     trades       |-> _extract_number(Group(s, m, 2), TRUE),
     pounds       |-> _extract_number(Group(s, m, 4), TRUE),
     low_price    |-> _extract_number(Group(s, m, 6), FALSE),
     high_price   |-> _extract_number(Group(s, m, 10), FALSE),
     weighted_avg |-> _extract_number(Group(s, m, 12), FALSE)]

\* a variant in which a match with a field that is None is no match
DataLineResult_rejects_null(dict) ==
    IF None \in {dict.trades, dict.pounds, dict.low_price, dict.high_price,
                 dict.weighted_avg}
    THEN NoMatch
    ELSE Outcome(dict, {dict.trades, dict.pounds})

DataLineResult(dict) == Outcome(dict, {dict.trades, dict.pounds})

\* group 3, (.+?), starts at st
DataLineAt(s, c1, st, en) ==
    DataLineResult(DataLineDict(s, SubSeq(s, 1, c1 - 1), SubSeq(s, st, en - 1),
                                MatchRuns(s, en, TRADES_COLUMNS)))

\* the second \s+ (s[n1 .. w2-1]) is greedy and gives whitespace back to
\* (.+?) only when nothing matches otherwise: group 3 starts at the largest
\* st for which the rest matches
DataLineStarts(s, n1, w2) ==
    {st \in (n1 + 1)..w2 : LazyEnd(s, st, TRADES_COLUMNS) # 0}

DataLineFrom(s, c1, n1, w2, sts) ==
    IF w2 = n1 \/ sts = {} THEN NoMatch
    ELSE DataLineAt(s, c1, SetMax(sts), LazyEnd(s, SetMax(sts), TRADES_COLUMNS))

\* (\d+)\s+ after the code and its whitespace: the sequence number
DataLineSeq(s, c1, w1, n1) ==
    IF w1 = c1 \/ n1 = w1 THEN NoMatch
    ELSE DataLineFrom(s, c1, n1, RunEnd(s, n1, WHITESPACE),
                      DataLineStarts(s, n1, RunEnd(s, n1, WHITESPACE)))

\* ^(\S+)\s+ : the code ends before c1
DataLineCode(s, c1) ==
    IF c1 = 1 THEN NoMatch
    ELSE DataLineSeq(s, c1, RunEnd(s, c1, WHITESPACE),
                     RunEnd(s, RunEnd(s, c1, WHITESPACE), DIGITS))

\* \S of s: its characters that are no whitespace
NonSpace(s) == {Ch(s, i) : i \in 1..Len(s)} \ WHITESPACE

MatchDataLine(s) == DataLineCode(s, RunEnd(s, 1, NonSpace(s)))

\* ^(\S+)\s+(\d+)\s+(.+?)\s+(\d+)\s+([\d,]+)\s+([\d,.]+)\s*-\s*([\d,.]+)\s+([\d,.]+)\s*$
\* matched against line.strip()
_parse_data_line(text) == MatchDataLine(strip(text))

\* the dict _parse_ground_beef_line returns: name = group 1
GroundBeefDict(s, name, m) ==
    [outcome      |-> "dict",
     product_name |-> strip(name),
     trades       |-> _extract_number(Group(s, m, 2), TRUE),
     pounds       |-> _extract_number(Group(s, m, 4), TRUE),
     low_price    |-> _extract_number(Group(s, m, 6), FALSE),
     high_price   |-> _extract_number(Group(s, m, 10), FALSE),
     weighted_avg |-> _extract_number(Group(s, m, 12), FALSE)]

GroundBeefResult(dict) == Outcome(dict, {dict.trades, dict.pounds})

GroundBeefAt(s, en) ==
    IF en = 0 THEN NoMatch
    ELSE GroundBeefResult(GroundBeefDict(s, SubSeq(s, 1, en - 1),
                                         MatchRuns(s, en, TRADES_COLUMNS)))

MatchGroundBeefLine(s) == GroundBeefAt(s, LazyEnd(s, 1, TRADES_COLUMNS))

\* ^(.+?)\s+(\d+)\s+([\d,]+)\s+([\d,.]+)\s*-\s*([\d,.]+)\s+([\d,.]+)\s*$
\* matched against line.strip()
_parse_ground_beef_line(text) == MatchGroundBeefLine(strip(text))

\* the fields of a match of the pork pattern: name = group 1
PorkDict(s, name, m) ==
    [outcome      |-> "dict",
     product_name |-> strip(name),
     pounds       |-> _extract_number(Group(s, m, 2), TRUE),
     low_price    |-> _extract_number(Group(s, m, 4), FALSE),
     high_price   |-> _extract_number(Group(s, m, 8), FALSE),
     weighted_avg |-> _extract_number(Group(s, m, 10), FALSE)]

\* if pounds and low_price and high_price and weighted_avg
HasReasonableValues(dict) ==
    Truthy(dict.pounds) /\ Truthy(dict.low_price)
        /\ Truthy(dict.high_price) /\ Truthy(dict.weighted_avg)

PorkResult(dict) ==
    IF dict.pounds = OverflowError THEN Raise
    ELSE IF HasReasonableValues(dict) THEN dict
    ELSE NoMatch

PorkAt(s, en) ==
    IF en = 0 THEN NoMatch
    ELSE PorkResult(PorkDict(s, SubSeq(s, 1, en - 1), MatchRuns(s, en, PRICE_COLUMNS)))

MatchPorkLine(s) == PorkAt(s, LazyEnd(s, 1, PRICE_COLUMNS))

\* ^(.+?)\s+([\d,]+)\s+([\d,.]+)\s*-\s*([\d,.]+)\s+([\d,.]+)\s*$
\* matched against line.strip()
_parse_pork_line(text) == MatchPorkLine(strip(text))

\* ------------------------------------------------------------------------
\* Noise filter and pork category heuristic
\* ------------------------------------------------------------------------
header_indicators ==
    {"total", "subtotal", "average", "grand total",
     "report", "date", "page", "continued", "usda",
     "imps", "fl", "sub-primal", "trades", "pounds", "price", "range", "weighted"}

\* a variant that compares the text as it is, without lowering it
_is_header_row_case_sensitive(text) ==
    \E indicator \in header_indicators : Contains(text, indicator)

_is_header_row(text) ==
    LET text_lower == lower(text)
    IN  \E indicator \in header_indicators : Contains(text_lower, indicator)

known_categories ==
    {"loin", "butt", "ham", "belly", "picnic", "sparerib",
     "jowl", "variety", "trim", "fat", "skin"}

skip_patterns ==
    {"total", "average", "source", "usda", "page", "report",
     "national", "weekly", "daily", "agricultural", "marketing",
     "vac", "fzn", "combo", "paper", "poly", "bnls", "bone"}

\* re.search(r'\d+\.\d{2}', text)
HasPricePattern(text) ==
    \E i \in 1..(Len(text) - 3) :
        /\ Ch(text, i) \in DIGITS
        /\ Ch(text, i + 1) = "."
        /\ Ch(text, i + 2) \in DIGITS
        /\ Ch(text, i + 3) \in DIGITS

\* re.search(r'\d{3,}', text)
HasLargeNumber(text) ==
    \E i \in 1..(Len(text) - 2) :
        \A k \in 0..2 : Ch(text, i + k) \in DIGITS

\* re.search(r'\d', text)
HasDigit(text) == \E i \in 1..Len(text) : Ch(text, i) \in DIGITS

\* a variant of the test of lines 464-466 that takes the bare word only
IsKnownCategory_exact(line_lower) == line_lower \in known_categories

\* lines 464-466: line_lower == cat or line_lower.startswith(cat + ' ')
IsKnownCategory(line_lower) ==
    \E cat \in known_categories :
        line_lower = cat \/ startswith(line_lower, cat \o " ")

\* a variant of the test of line 488 that finds no skip pattern
HasSkipWord_never(line_lower) == FALSE

\* line 488: any(skip in line_lower for skip in skip_patterns)
HasSkipWord(line_lower) == \E skip \in skip_patterns : Contains(line_lower, skip)

_is_pork_category_header(text) ==
    LET line_lower == strip(lower(text))
    IN  IF IsKnownCategory(line_lower) THEN TRUE
        ELSE IF endswith(strip(text), "-") THEN FALSE
        ELSE IF Len(text) > 30 THEN FALSE
        ELSE IF HasPricePattern(text) THEN FALSE
        ELSE IF HasLargeNumber(text) THEN FALSE
        ELSE IF HasSkipWord(line_lower) THEN FALSE
        ELSE WordCount(text) <= 2 /\ ~HasDigit(text)

\* ------------------------------------------------------------------------
\* Section keywords
\* ------------------------------------------------------------------------
WEEKLY_TYPES == {"branded_beef", "ungraded_beef"}

target_section_keywords(rtype) ==
    IF rtype = "branded_beef" THEN {"upper 2/3 choice", "items cuts"}
    ELSE {"ungraded cuts", "fat limitations"}

\* the first target keyword in place of the section name: a variant
section_category_from_keyword(rtype) ==
    IF rtype = "branded_beef" THEN "upper 2/3 choice" ELSE "ungraded cuts"

section_category(rtype) ==
    IF rtype = "branded_beef" THEN "Upper 2/3 Choice" ELSE "Ungraded Cuts"

end_keywords(rtype) ==
    IF rtype = "branded_beef" THEN {"lower", "branded select"}
    ELSE {"branded", "choice"}

\* ORDER MATTERS: more specific matches come first
section_markers ==
    << [name |-> "Choice, Select & Ungraded",
        keywords |-> {"choice, select & ungraded", "fat limitations"}],
       [name |-> "Ground Beef",
        keywords |-> {"gb - steer/heifer source", "10 pound chub"}],
       [name |-> "Choice Cuts", keywords |-> {"choice cuts", "fat limitations"}],
       [name |-> "Select Cuts", keywords |-> {"select cuts", "fat limitations"}] >>

\* all(keyword in text_lower for keyword in keywords)
ContainsAll(text_lower, keywords) == \A kw \in keywords : Contains(text_lower, kw)

\* any(keyword in text_lower for keyword in keywords)
ContainsAny(text_lower, keywords) == \E kw \in keywords : Contains(text_lower, kw)

\* a variant in which the last matching marker wins
FirstMarker_last_match(text_lower) ==
    LET hits == {k \in 1..Len(section_markers) :
                    ContainsAll(text_lower, section_markers[k].keywords)}
    IN  IF hits = {} THEN 0 ELSE SetMax(hits)

\* the first marker whose keywords are all in text_lower (the for ... break
\* of _parse_daily_report); 0 when there is none
FirstMarker(text_lower) ==
    LET hits == {k \in 1..Len(section_markers) :
                    ContainsAll(text_lower, section_markers[k].keywords)}
    IN  IF hits = {} THEN 0 ELSE SetMin(hits)

\* a variant in which the noise filter runs before the data-start test
IsDataSectionHeader_after_noise_filter(line_stripped) ==
    /\ ~_is_header_row(line_stripped)
    /\ Contains(lower(line_stripped), "pounds")
    /\ Contains(lower(line_stripped), "price")

\* 'pounds' in line_stripped.lower() and 'price' in line_stripped.lower()
IsDataSectionHeader(line_stripped) ==
    Contains(lower(line_stripped), "pounds") /\ Contains(lower(line_stripped), "price")

\* ------------------------------------------------------------------------
\* Input lines
\* ------------------------------------------------------------------------
\* the largest number of lines of one document
MaxLines == 5

WEEKLY_LINES ==
    { "Upper 2/3 Choice Items Cuts",
      "Ungraded Cuts, Fat Limitations 1-6",
      "Choice, Select & Ungraded Cuts, Fat Limitations 1-6",
      "Lower 1/3 Choice",
      "109E 1 Rib, ribeye 55 119,191 1,266.00 - 1,616.00 1,359.01",
      "114A 3 Chuck 5 , 1.00 - 2.00 .",
      "114A 3   5 10 1.00 - 2.00 1.50",
      "167A 4 Round, lower choice 5 10 1.00 - 2.00 1.50",
      "193 4 Flank, steak 9 10 1.00 - 2.00 1.50",
      "116B 2 Chuck 5 10 1.00 - -2.00 1.50",
      "112 2 Rib " \o FLOAT_OVERFLOW \o " 10 1.00 - 2.00 1.50",
      "Rib, ribeye",
      "  " }

DAILY_LINES ==
    { "Choice, Select & Ungraded Cuts, Fat Limitations 1-6",
      "GB - Steer/Heifer Source - 10 Pound Chub Basis",
      "Choice Cuts and Select Cuts, Fat Limitations 1-6",
      "Select Cuts, Fat Limitations 1-6",
      "109E 1 Rib, ribeye 55 119,191 1,266.00 - 1,616.00 1,359.01",
      "Ground Beef 73% 4 29,506 330.00 - 349.50 348.46",
      "Ground Beef 81% 4 , 1.00 - 2.00 .",
      "114A 3 Chuck 5 , 1.00 - 2.00 .",
      "Blended GB - Total 9 10 1.00 - 2.00 1.50",
      "Ground Beef 93% 4 10 1.00 - -2.00 1.50",
      "Ground Chuck 3 " \o FLOAT_OVERFLOW \o " 1.00 - 2.00 1.50",
      "Rib, ribeye",
      "" }

PORK_LINES ==
    { "Item Pounds Price Range Weighted Average",
      "Loin",
      "Sirloin ",
      "1/4 Trimmed Loin VAC 171,141 92.50 - 109.90 97.72",
      "1/4 Trimmed Loin VAC 171,141 0.00 - 109.90 97.72",
      "Ham 23-27# Trmd Selected Ham 0 61.00 - 70.00 65.43",
      "Total Loin 10 1.00 - 2.00 1.50",
      "Bnls Sirloin 10 1.00 - -2.00 1.50",
      "Tenderloin , 1.00 - 2.00 1.50",
      "Tenderloin " \o FLOAT_OVERFLOW \o " 1.00 - 2.00 1.50",
      "Trimmed VAC",
      " " }

LINES == WEEKLY_LINES \cup DAILY_LINES \cup PORK_LINES

(* What the scan computes from a line alone is tabulated once per line.    *)
line_lower_of == [ln \in LINES |-> strip(lower(ln))]

line_stripped_of == [ln \in LINES |-> strip(ln)]

is_header_row_of == [ln \in LINES |-> _is_header_row(ln)]

is_header_row_stripped_of == [ln \in LINES |-> _is_header_row(strip(ln))]

parse_data_line_of == [ln \in LINES |-> _parse_data_line(ln)]

parse_ground_beef_line_of == [ln \in LINES |-> _parse_ground_beef_line(ln)]

parse_pork_line_of == [ln \in LINES |-> _parse_pork_line(strip(ln))]

is_pork_category_header_of == [ln \in LINES |-> _is_pork_category_header(strip(ln))]

is_target_section_of ==
    [rtype \in WEEKLY_TYPES |->
        [ln \in LINES |-> ContainsAll(line_lower_of[ln], target_section_keywords(rtype))]]

is_section_end_of ==
    [rtype \in WEEKLY_TYPES |->
        [ln \in LINES |-> ContainsAny(line_lower_of[ln], end_keywords(rtype))]]

first_marker_of == [ln \in LINES |-> FirstMarker(line_lower_of[ln])]

is_data_section_header_of == [ln \in LINES |-> IsDataSectionHeader(strip(ln))]

\* ------------------------------------------------------------------------
\* State
\* ------------------------------------------------------------------------
VARIABLES
    pc,                 \* "ready", "extract", "lines", the running pipeline,
                        \* "number", "returned" or "raised"
    report_type,        \* the report_type argument
    n_lines,            \* len(lines)
    line_idx,           \* the number of lines the loop has taken
    line,               \* the line taken last
    pricing_data,       \* the list of records built so far
    in_target_section,  \* _parse_weekly_report
    current_category,   \* _parse_weekly_report, _parse_pork_report
    current_section,    \* _parse_daily_report
    in_data_section,    \* _parse_pork_report
    end_keyword_seen,   \* history: a weekly line held an end keyword
    category_headers,   \* history: the pork lines accepted as category header
    extraction,         \* history: the outcome of each extract_text_lines call
    lines_read,         \* history: the lines the current call has taken
    first_call,         \* history: the first completed call (at most one entry)
    calls,              \* history: the number of completed calls
    token_text,         \* _extract_number: the text argument
    integer_mode,       \* _extract_number: the is_integer argument
    extracted,          \* _extract_number: the value returned
    candidate,          \* _is_pork_category_header: the line argument
    verdict,            \* _is_pork_category_header: "" before the call, then
                        \* "accepted" or "rejected"
    usda_prices,        \* the rows of the table usda_prices, in storage order
    price_data,         \* insert_price: the argument of the last call, if any
    inserted,           \* insert_price: what the last call returned
    replaced,           \* history: the row the last call updated, as it was
    price_calls,        \* history: the number of calls of insert_price
    step,               \* where process_report stands
    force,              \* process_report: the force argument
    report_date,        \* process_report: report_date_str
    report_id,          \* process_report: the id insert_report gave, or None
    pdf_path,           \* process_report: the name of the PDF file, or None
    usda_reports,       \* the status of the row of usda_reports, by date
    temp_files,         \* the PDF files of the report in the temp directory
    parsed_pdf,         \* history: this call of process_report called parse
    written,            \* history: the tables this call has written
    reports_at_call,    \* history: usda_reports when this call started
    faults,             \* history: what failed under this call
    runs                \* history: the number of calls of process_report

\* the variables of the parser
parser_vars == << pc, report_type, n_lines, line_idx, line, pricing_data,
                  in_target_section, current_category, current_section,
                  in_data_section, end_keyword_seen, category_headers >>

\* the history of parse
parse_vars == << extraction >>

\* the history of a series of calls
call_vars == << lines_read, first_call, calls >>

\* a call of _extract_number
number_vars == << token_text, integer_mode, extracted >>

\* a call of _is_pork_category_header
heuristic_vars == << candidate, verdict >>

\* the table usda_prices and a call of insert_price
store_vars == << usda_prices, price_data, inserted, replaced, price_calls >>

\* a call of process_report, the table usda_reports and the temp directory
pipeline_vars == << step, force, report_date, report_id, pdf_path,
                    usda_reports, temp_files, parsed_pdf, written,
                    reports_at_call, faults, runs >>

other_vars == << heuristic_vars, store_vars, pipeline_vars >>

vars == << parser_vars, parse_vars, call_vars, number_vars, other_vars >>

REPORT_TYPES ==
    {"branded_beef", "ungraded_beef", "daily_afternoon", "pork_cuts", "lamb_cuts"}

\* the dates a report can bear
REPORT_DATES == {"2025-11-21", "2025-11-24"}

\* no call of _is_pork_category_header
HeuristicIdle ==
    /\ candidate = ""
    /\ verdict = ""

\* an empty table usda_prices and no call of insert_price
StoreIdle ==
    /\ usda_prices = <<>>
    /\ price_data = <<>>
    /\ inserted = None
    /\ replaced = <<>>
    /\ price_calls = 0

\* no call of process_report, an empty table usda_reports and an empty
\* temp directory
PipelineIdle ==
    /\ step = "idle"
    /\ force = FALSE
    /\ report_date = None
    /\ report_id = None
    /\ pdf_path = None
    /\ faults = {}
    /\ usda_reports = [d \in REPORT_DATES |-> "absent"]
    /\ temp_files = {}
    /\ parsed_pdf = FALSE
    /\ written = {}
    /\ reports_at_call = [d \in REPORT_DATES |-> "absent"]
    /\ runs = 0

\* a parser on which nothing was called
ParserIdle ==
    /\ report_type = ""
    /\ n_lines = 0
    /\ line_idx = 0
    /\ line = ""
    /\ pricing_data = <<>>
    /\ in_target_section = FALSE
    /\ current_category = None
    /\ current_section = None
    /\ in_data_section = FALSE
    /\ end_keyword_seen = FALSE
    /\ category_headers = {}
    /\ extraction = <<>>
    /\ lines_read = <<>>
    /\ first_call = <<>>
    /\ calls = 0

\* no call of _extract_number
NumberIdle ==
    /\ token_text = ""
    /\ integer_mode = FALSE
    /\ extracted = None

Init ==
    /\ pc = "ready"
    /\ ParserIdle
    /\ NumberIdle
    /\ HeuristicIdle
    /\ StoreIdle
    /\ PipelineIdle

\* parse (lines 564-577) starts by extracting the lines
parse(rtype) ==
    /\ pc = "ready"
    /\ pc' = "extract"
    /\ report_type' = rtype
    /\ UNCHANGED << n_lines, line_idx, line, pricing_data, in_target_section,
                    current_category, current_section, in_data_section,
                    end_keyword_seen, category_headers >>
    /\ UNCHANGED << parse_vars, call_vars, number_vars, other_vars >>

\* a variant of lines 49-51 that swallows the exception and returns the
\* (empty) list
AfterExtraction_swallowed(failure) == "lines"

\* lines 47 and 49-51: extract_text_lines returns all_lines, or logs the
\* exception and raises it again; parse does not catch it
AfterExtraction(failure) == IF failure THEN "raised" ELSE "lines"

\* extract_text_lines (lines 24-51): pdfplumber fails, or n lines are read
extract_text_lines(failure, n) ==
    /\ pc = "extract"
    /\ extraction' = Append(extraction, IF failure THEN "failed" ELSE "ok")
    /\ pc' = AfterExtraction(failure)
    /\ n_lines' = IF failure THEN 0 ELSE n
    /\ UNCHANGED << report_type, line_idx, line, pricing_data, in_target_section,
                    current_category, current_section, in_data_section,
                    end_keyword_seen, category_headers >>
    /\ UNCHANGED << call_vars, number_vars, other_vars >>

\* a variant that sends every type that is no beef type to the pork pipeline
Dispatch_unknown_to_pork(rtype) ==
    IF rtype = "daily_afternoon" THEN "daily"
    ELSE IF rtype \in WEEKLY_TYPES THEN "weekly"
    ELSE "pork"

\* the pipeline parse_pricing_data dispatches to; an unknown report type
\* goes to _parse_weekly_report, which returns its empty list at once
Dispatch(rtype) ==
    IF rtype = "daily_afternoon" THEN "daily"
    ELSE IF rtype = "pork_cuts" THEN "pork"
    ELSE IF rtype \in WEEKLY_TYPES THEN "weekly"
    ELSE "returned"

\* a variant in which the scan state lives on the parser object and is
\* kept from one call to the next
Locals_kept_between_calls(left) == left

\* lines 75-78, 158-159, 334-336: a pipeline starts with its own locals,
\* whatever the previous call left behind
Locals(left) ==
    [pricing_data      |-> <<>>,
     in_target_section |-> FALSE,
     current_category  |-> None,
     current_section   |-> None,
     in_data_section   |-> FALSE]

\* parse_pricing_data(lines, report_type), called by parse (pc = "lines")
\* or directly (pc = "ready"), with len(lines) = n
parse_pricing_data(rtype, n) ==
    /\ pc \in {"ready", "lines"}
    /\ report_type' = rtype
    /\ n_lines' = n
    /\ pc' = Dispatch(rtype)
    /\ line_idx' = 0
    /\ line' = ""
    /\ LET fresh == Locals([pricing_data      |-> pricing_data,
                            in_target_section |-> in_target_section,
                            current_category  |-> current_category,
                            current_section   |-> current_section,
                            in_data_section   |-> in_data_section])
       IN  /\ pricing_data' = fresh.pricing_data
           /\ in_target_section' = fresh.in_target_section
           /\ current_category' = fresh.current_category
           /\ current_section' = fresh.current_section
           /\ in_data_section' = fresh.in_data_section
    /\ end_keyword_seen' = FALSE
    /\ category_headers' = {}

\* the loop takes the next line
TakeLine(ln) ==
    /\ line_idx < n_lines
    /\ line_idx' = line_idx + 1
    /\ line' = ln

\* a variant in which a line that matches no grammar ends the scan
AfterParse_stops_on_miss(outcome, running) ==
    IF outcome = "raise" THEN "raised"
    ELSE IF outcome = "None" THEN "returned"
    ELSE running

\* where the scan stands after a grammar was applied to a line: it goes on
\* unless a number conversion raised
AfterParse(outcome, running) ==
    IF outcome = "raise" THEN "raised" ELSE running

\* pricing_data.append(record) in a variant that puts the record first
append_prepending(records, record) == <<record>> \o records

\* pricing_data.append(record) in a variant that also rewrites the category
\* of the records already in the list
append_recategorising(records, record) ==
    Append([k \in DOMAIN records |-> [records[k] EXCEPT !.category = record.category]],
           record)

\* pricing_data.append(record)
append(records, record) == Append(records, record)

\* a variant of the standard record that is named by its description alone
StandardRecord_named_by_description(parsed, rtype, category) ==
    [product_name    |-> parsed.description,
     product_code    |-> parsed.imps_code,
     price           |-> parsed.weighted_avg,
     low_price       |-> parsed.low_price,
     high_price      |-> parsed.high_price,
     volume          |-> parsed.pounds,
     report_type     |-> rtype,
     category        |-> category,
     additional_data |-> [num_trades |-> parsed.trades,
                          imps_code  |-> parsed.imps_code,
                          sub_primal |-> parsed.description]]

\* the record _parse_weekly_report and _parse_daily_report (standard
\* sections) build from a parsed standard line
StandardRecord(parsed, rtype, category) ==
    [product_name    |-> parsed.imps_code \o " - " \o parsed.description,
     product_code    |-> parsed.imps_code,
     price           |-> parsed.weighted_avg,
     low_price       |-> parsed.low_price,
     high_price      |-> parsed.high_price,
     volume          |-> parsed.pounds,
     report_type     |-> rtype,
     category        |-> category,
     additional_data |-> [num_trades |-> parsed.trades,
                          imps_code  |-> parsed.imps_code,
                          sub_primal |-> parsed.description]]

\* the record _parse_daily_report builds in the Ground Beef section
GroundBeefRecord(parsed, rtype, category) ==
    [product_name    |-> parsed.product_name,
     product_code    |-> None,
     price           |-> parsed.weighted_avg,
     low_price       |-> parsed.low_price,
     high_price      |-> parsed.high_price,
     volume          |-> parsed.pounds,
     report_type     |-> rtype,
     category        |-> category,
     additional_data |-> [num_trades |-> parsed.trades,
                          imps_code  |-> None,
                          sub_primal |-> parsed.product_name]]

\* a variant that never prefixes the category
full_product_name_bare(category, product_name) == product_name

\* f"{current_category} - {product_name}" if current_category else product_name
full_product_name(category, product_name) ==
    IF category \notin {None, ""} THEN category \o " - " \o product_name
    ELSE product_name

\* the record _parse_pork_report builds
PorkRecord(parsed, rtype, category) ==
    [product_name    |-> full_product_name(category, parsed.product_name),
     product_code    |-> None,
     price           |-> parsed.weighted_avg,
     low_price       |-> parsed.low_price,
     high_price      |-> parsed.high_price,
     volume          |-> parsed.pounds,
     report_type     |-> rtype,
     category        |-> category,
     meat_type       |-> "pork",
     additional_data |-> [sub_primal |-> parsed.product_name]]

\* ------------------------------------------------------------------------
\* _parse_weekly_report: one iteration of the loop
\* ------------------------------------------------------------------------
\* line 99: the line holds every target keyword
EntersTargetSection(rtype, ln) == is_target_section_of[rtype][ln]

\* a variant of the test of line 106 that never leaves the section
LeavesTargetSection_never(rtype, in_section, ln) == FALSE

\* line 106: in the section, the line holds an end keyword
LeavesTargetSection(rtype, in_section, ln) ==
    in_section /\ is_section_end_of[rtype][ln]

\* line 115: not line.strip() or self._is_header_row(line)
IsNoise(ln) == line_stripped_of[ln] = "" \/ is_header_row_of[ln]

\* a variant without the test of line 111
Skips_noise_only(in_section, ln) == IsNoise(ln)

\* lines 111-116: the line is outside the target section, or noise
Skips(in_section, ln) == ~in_section \/ IsNoise(ln)

_parse_weekly_report(ln) ==
    /\ pc = "weekly"
    /\ TakeLine(ln)
    /\ end_keyword_seen' = (end_keyword_seen \/ is_section_end_of[report_type][ln])
    /\ UNCHANGED << report_type, n_lines, current_section, in_data_section,
                    category_headers >>
    /\ IF EntersTargetSection(report_type, ln)
       THEN /\ in_target_section' = TRUE
            /\ current_category' = section_category(report_type)
            /\ UNCHANGED << pc, pricing_data >>
       ELSE IF LeavesTargetSection(report_type, in_target_section, ln)
       THEN \* break: the list is returned as it is
            /\ pc' = "returned"
            /\ UNCHANGED << pricing_data, in_target_section, current_category >>
       ELSE IF Skips(in_target_section, ln)
       THEN UNCHANGED << pc, pricing_data, in_target_section, current_category >>
       ELSE LET parsed == parse_data_line_of[ln]
            IN  /\ pc' = AfterParse(parsed.outcome, pc)
                /\ pricing_data' =
                      IF parsed.outcome = "dict"
                      THEN append(pricing_data,
                                  StandardRecord(parsed, report_type, current_category))
                      ELSE pricing_data
                /\ UNCHANGED << in_target_section, current_category >>

\* ------------------------------------------------------------------------
\* _parse_daily_report: one iteration of the loop
\* ------------------------------------------------------------------------
\* a variant of the section test of line 197 that never takes the Ground
\* Beef branch
SectionGrammar_always_standard(section) == "standard"

\* line 197: if current_section == 'Ground Beef'
SectionGrammar(section) ==
    IF section = "Ground Beef" THEN "ground_beef" ELSE "standard"

\* lines 197-200: the grammar of the current section
ParseInSection(section, ln) ==
    IF SectionGrammar(section) = "ground_beef"
    THEN parse_ground_beef_line_of[ln]
    ELSE parse_data_line_of[ln]

\* lines 203-240: the record of the current section
DailyRecord(section, parsed, rtype) ==
    IF SectionGrammar(section) = "ground_beef"
    THEN GroundBeefRecord(parsed, rtype, section)
    ELSE StandardRecord(parsed, rtype, section)

_parse_daily_report(ln) ==
    /\ pc = "daily"
    /\ TakeLine(ln)
    /\ UNCHANGED << report_type, n_lines, in_target_section, current_category,
                    in_data_section, end_keyword_seen, category_headers >>
    /\ IF first_marker_of[ln] # 0
       THEN /\ current_section' = section_markers[first_marker_of[ln]].name
            /\ UNCHANGED << pc, pricing_data >>
       ELSE IF current_section = None \/ IsNoise(ln)
       THEN UNCHANGED << pc, pricing_data, current_section >>
       ELSE LET parsed == ParseInSection(current_section, ln)
            IN  /\ pc' = AfterParse(parsed.outcome, pc)
                /\ pricing_data' =
                      IF parsed.outcome = "dict"
                      THEN append(pricing_data,
                                  DailyRecord(current_section, parsed, report_type))
                      ELSE pricing_data
                /\ UNCHANGED current_section

\* ------------------------------------------------------------------------
\* _parse_pork_report: one iteration of the loop
\* ------------------------------------------------------------------------
\* a variant of lines 394-396 that keeps a category once it is set
NextCategory_keeps_first(outcome, is_header, category, line_stripped) ==
    IF outcome = "None" /\ is_header /\ category = None
    THEN line_stripped ELSE category

\* lines 365, 391-396: when the line is no product line and is a category
\* header, current_category = line_stripped
NextCategory(outcome, is_header, category, line_stripped) ==
    IF outcome = "None" /\ is_header THEN line_stripped ELSE category

_parse_pork_report(ln) ==
    /\ pc = "pork"
    /\ TakeLine(ln)
    /\ UNCHANGED << report_type, n_lines, in_target_section, current_section,
                    end_keyword_seen >>
    /\ IF line_stripped_of[ln] = ""
       THEN UNCHANGED << pc, pricing_data, current_category, in_data_section,
                         category_headers >>
       ELSE IF is_data_section_header_of[ln]
       THEN /\ in_data_section' = TRUE
            /\ UNCHANGED << pc, pricing_data, current_category, category_headers >>
       ELSE IF ~in_data_section \/ is_header_row_stripped_of[ln]
       THEN UNCHANGED << pc, pricing_data, current_category, in_data_section,
                         category_headers >>
       ELSE LET parsed == parse_pork_line_of[ln]
            IN  /\ pc' = AfterParse(parsed.outcome, pc)
                /\ pricing_data' =
                      IF parsed.outcome = "dict"
                      THEN append(pricing_data,
                                  PorkRecord(parsed, report_type, current_category))
                      ELSE pricing_data
                /\ current_category' =
                      NextCategory(parsed.outcome, is_pork_category_header_of[ln],
                                   current_category, line_stripped_of[ln])
                /\ category_headers' =
                      IF parsed.outcome = "None" /\ is_pork_category_header_of[ln]
                      THEN category_headers \cup {ln}
                      ELSE category_headers
                /\ UNCHANGED in_data_section

\* the loop is over: return pricing_data
Return ==
    /\ pc \in {"weekly", "daily", "pork"}
    /\ line_idx = n_lines
    /\ pc' = "returned"
    /\ UNCHANGED << report_type, n_lines, line_idx, line, pricing_data,
                    in_target_section, current_category, current_section,
                    in_data_section, end_keyword_seen, category_headers >>

\* parse: the lines are extracted, then scanned
Next ==
    \/ \E rtype \in REPORT_TYPES : parse(rtype)
    \/ \E failure \in BOOLEAN, n \in 0..MaxLines : extract_text_lines(failure, n)
    \/ /\ pc = "lines"
       /\ parse_pricing_data(report_type, n_lines)
       /\ UNCHANGED << parse_vars, call_vars, number_vars, other_vars >>
    \/ \E ln \in WEEKLY_LINES :
          _parse_weekly_report(ln) /\ UNCHANGED << parse_vars, call_vars, number_vars, other_vars >>
    \/ \E ln \in DAILY_LINES :
          _parse_daily_report(ln) /\ UNCHANGED << parse_vars, call_vars, number_vars, other_vars >>
    \/ \E ln \in PORK_LINES :
          _parse_pork_report(ln) /\ UNCHANGED << parse_vars, call_vars, number_vars, other_vars >>
    \/ Return /\ UNCHANGED << parse_vars, call_vars, number_vars, other_vars >>

Spec == Init /\ [][Next]_vars

\* ------------------------------------------------------------------------
\* A series of calls of parse_pricing_data on one parser
\* ------------------------------------------------------------------------
\* the largest number of lines of a document of the series
MaxCallLines == 2

\* the largest number of completed calls
MaxCalls == 3

CALL_WEEKLY_LINES ==
    { "Upper 2/3 Choice Items Cuts",
      "109E 1 Rib, ribeye 55 119,191 1,266.00 - 1,616.00 1,359.01",
      "Lower 1/3 Choice" }

CALL_DAILY_LINES ==
    { "GB - Steer/Heifer Source - 10 Pound Chub Basis",
      "Ground Beef 73% 4 29,506 330.00 - 349.50 348.46" }

CALL_PORK_LINES ==
    { "Item Pounds Price Range Weighted Average",
      "Loin",
      "1/4 Trimmed Loin VAC 171,141 92.50 - 109.90 97.72" }

\* what a completed call is remembered by: its arguments, as far as the
\* call read them, and what it returned
CompletedCall ==
    [report_type |-> report_type,
     n_lines     |-> n_lines,
     lines       |-> lines_read,
     outcome     |-> pc,
     result      |-> pricing_data]

\* the call is over; the parser object is ready for the next call, the
\* finished call's variables are left as they are
NextCall ==
    /\ pc \in {"returned", "raised"}
    /\ pc' = "ready"
    /\ calls' = calls + 1
    /\ first_call' = IF first_call = <<>> THEN << CompletedCall >> ELSE first_call
    /\ UNCHANGED << report_type, n_lines, line_idx, line, pricing_data,
                    in_target_section, current_category, current_section,
                    in_data_section, end_keyword_seen, category_headers >>
    /\ UNCHANGED << lines_read, parse_vars, number_vars, other_vars >>

CallsNext ==
    \/ \E rtype \in REPORT_TYPES, n \in 0..MaxCallLines :
          /\ pc = "ready"
          /\ calls < MaxCalls
          /\ parse_pricing_data(rtype, n)
          /\ lines_read' = <<>>
          /\ UNCHANGED << first_call, calls, parse_vars, number_vars, other_vars >>
    \/ \E ln \in CALL_WEEKLY_LINES :
          /\ _parse_weekly_report(ln)
          /\ lines_read' = Append(lines_read, ln)
          /\ UNCHANGED << first_call, calls, parse_vars, number_vars, other_vars >>
    \/ \E ln \in CALL_DAILY_LINES :
          /\ _parse_daily_report(ln)
          /\ lines_read' = Append(lines_read, ln)
          /\ UNCHANGED << first_call, calls, parse_vars, number_vars, other_vars >>
    \/ \E ln \in CALL_PORK_LINES :
          /\ _parse_pork_report(ln)
          /\ lines_read' = Append(lines_read, ln)
          /\ UNCHANGED << first_call, calls, parse_vars, number_vars, other_vars >>
    \/ Return /\ UNCHANGED << parse_vars, call_vars, number_vars, other_vars >>
    \/ NextCall

SpecCalls == Init /\ [][CallsNext]_vars

\* ------------------------------------------------------------------------
\* A call of _extract_number
\* ------------------------------------------------------------------------
\* a token is a prefix, integer digits, a fraction and a suffix
TOKEN_PREFIXES == {"", "$", " ", "-", "$ -", "abc "}

TOKEN_INTEGERS == {"", "0", "7", "1,266", "119191", FLOAT_OVERFLOW}

TOKEN_FRACTIONS == {"", ".", ".00", ".5"}

TOKEN_SUFFIXES == {"", " ", "%"}

TOKENS ==
    {pre \o ip \o fp \o post :
        pre \in TOKEN_PREFIXES, ip \in TOKEN_INTEGERS,
        fp \in TOKEN_FRACTIONS, post \in TOKEN_SUFFIXES}

NumberInit ==
    /\ pc = "number"
    /\ token_text \in TOKENS
    /\ integer_mode \in BOOLEAN
    /\ extracted = None
    /\ ParserIdle
    /\ HeuristicIdle
    /\ StoreIdle
    /\ PipelineIdle

\* self._extract_number(text, is_integer): it returns a value or raises
ExtractNumber ==
    /\ pc = "number"
    /\ LET value == _extract_number(token_text, integer_mode)
       IN  /\ pc' = IF value = OverflowError THEN "raised" ELSE "returned"
           /\ extracted' = IF value = OverflowError THEN None ELSE value
    /\ UNCHANGED << report_type, n_lines, line_idx, line, pricing_data,
                    in_target_section, current_category, current_section,
                    in_data_section, end_keyword_seen, category_headers >>
    /\ UNCHANGED << token_text, integer_mode, parse_vars, call_vars, other_vars >>

NumberNext == ExtractNumber

SpecNumber == NumberInit /\ [][NumberNext]_vars

\* ------------------------------------------------------------------------
\* A call of _is_pork_category_header
\* ------------------------------------------------------------------------
\* a candidate line is a head and a tail
CANDIDATE_HEADS ==
    {"Loin", "LOIN", " ham", "Hamburger", "Fatback", "Skin-on", "Sirloin",
     "Rib", "Trimmed", "Total", "Cuts 12", "Tenderloin Medallions 1/4 inch"}

CANDIDATE_TAILS ==
    {"", " ", " -", " Cuts", " VAC", " 7", " 123", " 1.50", " Back Ribs",
     "                           ", "                            ",
     " 23-27# Trmd Selected Ham 0 61.00 - 70.00 65.43"}

CANDIDATES ==
    {head \o tail : head \in CANDIDATE_HEADS, tail \in CANDIDATE_TAILS}

HeuristicInit ==
    /\ pc = "ready"
    /\ candidate \in CANDIDATES
    /\ verdict = ""
    /\ ParserIdle
    /\ NumberIdle
    /\ StoreIdle
    /\ PipelineIdle

\* self._is_pork_category_header(line)
IsPorkCategoryHeader ==
    /\ verdict = ""
    /\ verdict' = IF _is_pork_category_header(candidate)
                  THEN "accepted" ELSE "rejected"
    /\ UNCHANGED << candidate, parser_vars, parse_vars, call_vars, number_vars,
                    store_vars, pipeline_vars >>

HeuristicNext == IsPorkCategoryHeader

SpecHeuristic == HeuristicInit /\ [][HeuristicNext]_vars

\* ------------------------------------------------------------------------
\* A series of calls of insert_price
\* ------------------------------------------------------------------------
\* the largest number of calls of insert_price
MaxPriceCalls == 3

PRODUCT_IDS == {"product-1", "product-2"}

PRICE_CATEGORIES == {None, "Loin"}

PRICE_REPORT_TYPES == {"pork_cuts", "daily_afternoon"}

PRICES == {"1.0", "2.0"}

\* the price records save_pricing_data builds (lines 251-263), as far as
\* insert_price tells them apart
PRICE_RECORDS ==
    [product_id  : PRODUCT_IDS,
     report_date : REPORT_DATES,
     category    : PRICE_CATEGORIES,
     report_type : PRICE_REPORT_TYPES,
     price       : PRICES]

\* lines 170-182: the rows the query selects; a filter on category or
\* report_type is added only when the record holds a value for it
ExistingRows(rows, record) ==
    {k \in DOMAIN rows :
        /\ rows[k].product_id = record.product_id
        /\ rows[k].report_date = record.report_date
        /\ record.category # None => rows[k].category = record.category
        /\ record.report_type # None => rows[k].report_type = record.report_type}

\* lines 186-195: the update of the row with the values of the record
UpdatedRow(row, record) ==
    [row EXCEPT !.price = record.price,
                !.category = record.category,
                !.report_type = record.report_type]

\* lines 199-211: the row inserted for the record
InsertedRow(record) ==
    [product_id  |-> record.product_id,
     report_date |-> record.report_date,
     category    |-> record.category,
     report_type |-> record.report_type,
     price       |-> record.price]

\* self.insert_price(price_data): the query, then the update of
\* existing.data[0], which is any of the rows selected as the query has no
\* order, or the insert; an exception of the client is caught and nothing
\* is written
insert_price(record, raises) ==
    /\ price_calls < MaxPriceCalls
    /\ price_calls' = price_calls + 1
    /\ price_data' = << record >>
    /\ IF raises
       THEN /\ inserted' = "False"
            /\ replaced' = <<>>
            /\ UNCHANGED usda_prices
       ELSE /\ inserted' = "True"
            /\ IF ExistingRows(usda_prices, record) # {}
               THEN \E k \in ExistingRows(usda_prices, record) :
                       /\ usda_prices' =
                             [usda_prices EXCEPT ![k] = UpdatedRow(usda_prices[k], record)]
                       /\ replaced' = << usda_prices[k] >>
               ELSE /\ usda_prices' = Append(usda_prices, InsertedRow(record))
                    /\ replaced' = <<>>
    /\ UNCHANGED << parser_vars, parse_vars, call_vars, number_vars,
                    heuristic_vars, pipeline_vars >>

StoreNext ==
    \E record \in PRICE_RECORDS, raises \in BOOLEAN : insert_price(record, raises)

SpecStore == Init /\ [][StoreNext]_vars

\* ------------------------------------------------------------------------
\* USDAScraperPipeline.process_report, for the reports of one type
\* ------------------------------------------------------------------------
(* step is "idle" before the first call, "True" or "False" when a call has *)
(* returned that value, and names the next stage of the call otherwise.    *)
(* The id of a report row is its date. What the environment decides (a     *)
(* download, a query, a file operation or the parser failing) is an input  *)
(* of the stage where the code handles it.                                 *)

\* the largest number of calls of process_report
MaxRuns == 3

\* f"{report_type}_temp.pdf" in the temp directory
TEMP_PDF == "temp"

\* what parser.parse(report_type) does: it returns records, returns an
\* empty list or raises
PARSE_OUTCOMES == {"records", "empty", "raised"}

\* lines 70-87: update_report_status; an exception is logged and dropped
update_report_status(reports, id, status, update_ok) ==
    IF update_ok THEN [reports EXCEPT ![id] = status] ELSE reports

\* the tables written so far, after a write of table that took place or not
Written(tables, table, took_place) ==
    IF took_place THEN tables \cup {table} ELSE tables

\* what failed so far, after an operation that succeeded or not
Faults(failed, name, ok) == IF ok THEN failed ELSE failed \cup {name}

\* lines 98-111: the call starts; an unknown report type returns False
process_report(known_type, forced) ==
    /\ step \in {"idle", "True", "False"}
    /\ runs < MaxRuns
    /\ runs' = runs + 1
    /\ force' = forced
    /\ step' = IF known_type THEN "download" ELSE "False"
    /\ report_date' = None
    /\ report_id' = None
    /\ pdf_path' = None
    /\ parsed_pdf' = FALSE
    /\ written' = {}
    /\ faults' = {}
    /\ reports_at_call' = usda_reports
    /\ UNCHANGED << usda_reports, temp_files >>

\* lines 113-124: the PDF is downloaded under its temporary name and its
\* date is read
download_pdf(download_ok, date) ==
    /\ step = "download"
    /\ pdf_path' = TEMP_PDF
    /\ IF download_ok
       THEN /\ temp_files' = temp_files \cup {TEMP_PDF}
            /\ report_date' = date
            /\ step' = "check"
       ELSE /\ step' = "False"
            /\ UNCHANGED << temp_files, report_date >>
    /\ faults' = Faults(faults, "download", download_ok)
    /\ UNCHANGED << force, report_id, usda_reports, parsed_pdf, written,
                    reports_at_call, runs >>

\* lines 126-130 and check_report_exists (lines 293-314): without force,
\* a report that the query finds is skipped; a query that raises gives
\* False; os.remove that raises is caught at line 196
check_report_exists(query_ok, remove_ok) ==
    /\ step = "check"
    /\ IF ~force /\ query_ok /\ usda_reports[report_date] # "absent"
       THEN /\ temp_files' = IF remove_ok THEN temp_files \ {pdf_path} ELSE temp_files
            /\ step' = IF remove_ok THEN "True" ELSE "False"
            /\ faults' = Faults(faults, "remove", remove_ok)
       ELSE /\ step' = "insert"
            /\ faults' = Faults(faults, "query", force \/ query_ok)
            /\ UNCHANGED temp_files
    /\ UNCHANGED << force, report_date, report_id, pdf_path, usda_reports,
                    parsed_pdf, written, reports_at_call, runs >>

\* lines 132-143 and insert_report (lines 33-68): the id of the row that
\* exists, or of a new row in status 'processing'; None when the client
\* raises
insert_report(insert_ok, remove_ok) ==
    /\ step = "insert"
    /\ IF insert_ok
       THEN /\ report_id' = report_date
            /\ usda_reports' =
                  IF usda_reports[report_date] = "absent"
                  THEN [usda_reports EXCEPT ![report_date] = "processing"]
                  ELSE usda_reports
            /\ written' = Written(written, "usda_reports",
                                  usda_reports[report_date] = "absent")
            /\ step' = "rename"
            /\ UNCHANGED << temp_files, faults >>
       ELSE /\ temp_files' = IF remove_ok THEN temp_files \ {pdf_path} ELSE temp_files
            /\ faults' = Faults(Faults(faults, "insert", FALSE), "remove", remove_ok)
            /\ step' = "False"
            /\ UNCHANGED << report_id, usda_reports, written >>
    /\ UNCHANGED << force, report_date, pdf_path, parsed_pdf, reports_at_call,
                    runs >>

\* lines 145-149: the file takes its dated name; os.rename that raises is
\* caught at line 196
rename(rename_ok) ==
    /\ step = "rename"
    /\ IF rename_ok
       THEN /\ temp_files' = (temp_files \ {pdf_path}) \cup {report_date}
            /\ pdf_path' = report_date
            /\ step' = "parse"
       ELSE /\ step' = "False"
            /\ UNCHANGED << temp_files, pdf_path >>
    /\ faults' = Faults(faults, "rename", rename_ok)
    /\ UNCHANGED << force, report_date, report_id, usda_reports, parsed_pdf,
                    written, reports_at_call, runs >>

\* lines 151-167: the PDF is parsed
parse_pdf(outcome, update_ok) ==
    /\ step = "parse"
    /\ parsed_pdf' = TRUE
    /\ IF outcome = "records"
       THEN /\ step' = "save"
            /\ UNCHANGED << usda_reports, written, faults >>
       ELSE /\ usda_reports' =
                  update_report_status(usda_reports, report_id,
                      IF outcome = "empty" THEN "completed" ELSE "failed",
                      update_ok)
            /\ written' = Written(written, "usda_reports", update_ok)
            /\ faults' = Faults(Faults(faults, "parse", outcome # "raised"),
                                "update", update_ok)
            /\ step' = IF outcome = "empty" THEN "True" ELSE "False"
    /\ UNCHANGED << force, report_date, report_id, pdf_path, temp_files,
                    reports_at_call, runs >>

\* lines 169-194: the records are saved, the status is set and, when
\* something was saved, the file is removed
save_pricing_data(saved, update_ok, remove_ok) ==
    /\ step = "save"
    /\ usda_reports' =
          update_report_status(usda_reports, report_id,
              IF saved THEN "completed" ELSE "failed", update_ok)
    /\ written' = Written(Written(written, "usda_prices", saved),
                          "usda_reports", update_ok)
    /\ temp_files' = IF saved /\ remove_ok THEN temp_files \ {pdf_path}
                     ELSE temp_files
    /\ faults' = Faults(Faults(Faults(faults, "save", saved), "update", update_ok),
                        "remove", ~saved \/ remove_ok)
    /\ step' = IF saved THEN "True" ELSE "False"
    /\ UNCHANGED << force, report_date, report_id, pdf_path, parsed_pdf,
                    reports_at_call, runs >>

PipelineNext ==
    \/ \E known_type, forced \in BOOLEAN :
          /\ process_report(known_type, forced)
          /\ UNCHANGED << parser_vars, parse_vars, call_vars, number_vars,
                          heuristic_vars, store_vars >>
    \/ \E download_ok \in BOOLEAN, date \in REPORT_DATES :
          /\ download_pdf(download_ok, date)
          /\ UNCHANGED << parser_vars, parse_vars, call_vars, number_vars,
                          heuristic_vars, store_vars >>
    \/ \E query_ok, remove_ok \in BOOLEAN :
          /\ check_report_exists(query_ok, remove_ok)
          /\ UNCHANGED << parser_vars, parse_vars, call_vars, number_vars,
                          heuristic_vars, store_vars >>
    \/ \E insert_ok, remove_ok \in BOOLEAN :
          /\ insert_report(insert_ok, remove_ok)
          /\ UNCHANGED << parser_vars, parse_vars, call_vars, number_vars,
                          heuristic_vars, store_vars >>
    \/ \E rename_ok \in BOOLEAN :
          /\ rename(rename_ok)
          /\ UNCHANGED << parser_vars, parse_vars, call_vars, number_vars,
                          heuristic_vars, store_vars >>
    \/ \E outcome \in PARSE_OUTCOMES, update_ok \in BOOLEAN :
          /\ parse_pdf(outcome, update_ok)
          /\ UNCHANGED << parser_vars, parse_vars, call_vars, number_vars,
                          heuristic_vars, store_vars >>
    \/ \E saved, update_ok, remove_ok \in BOOLEAN :
          /\ save_pricing_data(saved, update_ok, remove_ok)
          /\ UNCHANGED << parser_vars, parse_vars, call_vars, number_vars,
                          heuristic_vars, store_vars >>

SpecPipeline == Init /\ [][PipelineNext]_vars

\* ------------------------------------------------------------------------
\* Properties
\* ------------------------------------------------------------------------
\* the records of the list
Records == {pricing_data[k] : k \in DOMAIN pricing_data}

\* this step scans a line (line' is that line)
Scans == line_idx' = line_idx + 1

\* this step emits a record
Emits == Len(pricing_data') = Len(pricing_data) + 1

\* the record this step emits
Emitted == pricing_data'[Len(pricing_data')]

\* v is a number and v >= 0
NonNegative(v) == v # None /\ (Ch(v, 1) # "-" \/ v = "-0.0")

\* v is an int (not a float, not None)
IsInt(v) == v # None /\ \A i \in 1..Len(v) : Ch(v, i) \in DIGITS \cup {"-"}

\* v is a number and v > 0
Positive(v) ==
    /\ v # None
    /\ Ch(v, 1) # "-"
    /\ v = "inf" \/ \E i \in 1..Len(v) : Ch(v, i) \in DIGITS \ {"0"}

\* the first whitespace-separated token of a stripped line
FirstToken(s) == SubSeq(s, 1, RunEnd(s, 1, NonSpace(s)) - 1)

\* the texts that a stripped line s holds before its columns cols: the
\* prefixes of s that end a word and are followed by cols alone
LeadingTexts(s, cols) ==
    {SubSeq(s, 1, k) : k \in {j \in 1..(Len(s) - 1) :
                                /\ Ch(s, j) \notin WHITESPACE
                                /\ Ch(s, j + 1) \in WHITESPACE
                                /\ MatchRuns(s, j + 1, cols) # <<>>}}

first_token_of == [ln \in LINES |-> FirstToken(strip(ln))]

text_before_trades_of == [ln \in LINES |-> LeadingTexts(strip(ln), TRADES_COLUMNS)]

text_before_pounds_of == [ln \in LINES |-> LeadingTexts(strip(ln), PRICE_COLUMNS)]

C2_UnknownReportTypeReturnsEmpty ==
    (/\ pc \notin {"ready", "extract", "lines", "number"}
     /\ "failed" \notin {extraction[k] : k \in DOMAIN extraction}
     /\ report_type \notin
           {"daily_afternoon", "pork_cuts", "branded_beef", "ungraded_beef"})
        => (pc = "returned" /\ pricing_data = <<>> /\ line_idx = 0)

\* an unknown report type called with a document that has lines
C2_Witness ==
    /\ report_type = "lamb_cuts"
    /\ pc = "returned"
    /\ n_lines > 0

\* ---- C3 ----------------------------------------------------------------
\* C3: in every record of every layout, price, low_price and high_price are
\* each None or a number >= 0, and volume and the trade count, when present,
\* are integers >= 0.
C3_NumbersNonNegative ==
    \A r \in Records :
        /\ \A v \in {r.price, r.low_price, r.high_price} : v = None \/ NonNegative(v)
        /\ r.volume = None \/ (IsInt(r.volume) /\ NonNegative(r.volume))
        /\ "num_trades" \in DOMAIN r.additional_data
              => \/ r.additional_data.num_trades = None
                 \/ /\ IsInt(r.additional_data.num_trades)
                    /\ NonNegative(r.additional_data.num_trades)

\* a line with a minus sign before its high price was scanned, where lines
\* are parsed, after a record was emitted
C3_Witness ==
    /\ pricing_data # <<>>
    /\ \/ pc = "weekly" /\ in_target_section
          /\ line = "116B 2 Chuck 5 10 1.00 - -2.00 1.50"
       \/ pc = "daily" /\ current_section # None
          /\ line = "Ground Beef 93% 4 10 1.00 - -2.00 1.50"
       \/ pc = "pork" /\ in_data_section
          /\ line = "Bnls Sirloin 10 1.00 - -2.00 1.50"

\* ---- C4 ----------------------------------------------------------------
\* C4: every record of the weekly, daily or pork pipeline has a non-empty
\* product_name.
C4_ProductNameNonEmpty ==
    \A r \in Records : r.product_name # "" /\ r.product_name # None

\* a record whose description is empty: its name is its code and " - "
C4_Witness ==
    \E r \in Records :
        /\ "imps_code" \in DOMAIN r.additional_data
        /\ r.additional_data.sub_primal = ""

\* ---- C5 ----------------------------------------------------------------
\* C5: the category of every record is in the set of its report type: the
\* fixed section name of the subtype for weekly, one of the four section
\* names for daily, and for pork None or the (stripped) text of an earlier
\* line that was accepted as a category header.
C5_CategoryDeclared ==
    \A r \in Records :
        /\ r.report_type = "branded_beef" => r.category = "Upper 2/3 Choice"
        /\ r.report_type = "ungraded_beef" => r.category = "Ungraded Cuts"
        /\ r.report_type = "daily_afternoon"
              => r.category \in {"Choice, Select & Ungraded", "Ground Beef",
                                 "Choice Cuts", "Select Cuts"}
        /\ r.report_type = "pork_cuts"
              => \/ r.category = None
                 \/ \E h \in category_headers : r.category = line_stripped_of[h]

\* a pork record whose category is the stripped text of the header line
\* "Sirloin " scanned before it
C5_Witness ==
    /\ "Sirloin " \in category_headers
    /\ \E r \in Records : r.report_type = "pork_cuts" /\ r.category = "Sirloin"

\* ---- C6 ----------------------------------------------------------------
\* C6: a record's category is the section (weekly, daily) or category (pork)
\* that is active when its line is scanned, and it is fixed at emission: a
\* step never changes a record already in the list, so the records emitted
\* before a section or category change keep theirs.
C6_CategoryFixedAtEmission ==
    [][/\ Len(pricing_data') >= Len(pricing_data)
       /\ SubSeq(pricing_data', 1, Len(pricing_data)) = pricing_data
       /\ Len(pricing_data') > Len(pricing_data)
             => /\ Emits
                /\ Emitted.category =
                      IF pc = "daily" THEN current_section ELSE current_category]_vars

\* two records of one document with different categories, the pork category
\* or the daily section having changed between them
C6_Witness ==
    /\ pc \in {"daily", "pork"}
    /\ Len(pricing_data) >= 2
    /\ pricing_data[1].category \notin {None, pricing_data[2].category}
    /\ pricing_data[2].category =
          IF pc = "daily" THEN current_section ELSE current_category

\* ---- C7 ----------------------------------------------------------------
\* lines of the shape CODE SEQ DESCRIPTION TRADES VOLUME LOW - HIGH AVERAGE
\* with their tokens, numbers normalized
C7_Shaped ==
    ("109E 1 Rib, ribeye 55 119,191 1,266.00 - 1,616.00 1,359.01" :>
        [code |-> "109E", description |-> "Rib, ribeye", trades |-> "55",
         volume |-> "119191", low |-> "1266.0", high |-> "1616.0",
         average |-> "1359.01"])
    @@ ("114A 3 Chuck 5 , 1.00 - 2.00 ." :>
        [code |-> "114A", description |-> "Chuck", trades |-> "5",
         volume |-> None, low |-> "1.0", high |-> "2.0", average |-> None])
    @@ (("112 2 Rib " \o FLOAT_OVERFLOW \o " 10 1.00 - 2.00 1.50") :>
        [code |-> "112", description |-> "Rib", trades |-> FLOAT_OVERFLOW,
         volume |-> "10", low |-> "1.0", high |-> "2.0", average |-> "1.5"])

\* the record C7 expects of a shaped line: no field holds SEQ
C7_Record(tokens, rtype) ==
    [product_name    |-> tokens.code \o " - " \o tokens.description,
     product_code    |-> tokens.code,
     price           |-> tokens.average,
     low_price       |-> tokens.low,
     high_price      |-> tokens.high,
     volume          |-> tokens.volume,
     report_type     |-> rtype,
     category        |-> IF rtype = "branded_beef" THEN "Upper 2/3 Choice"
                         ELSE "Ungraded Cuts",
     additional_data |-> [num_trades |-> tokens.trades,
                          imps_code  |-> tokens.code,
                          sub_primal |-> tokens.description]]

\* this step scans, in the target section, the line ln, which is no section
\* header, no end-keyword line and no noise
C7_ScansInSection(ln) ==
    /\ pc = "weekly" /\ Scans /\ in_target_section
    /\ line' = ln
    /\ ~is_target_section_of[report_type][ln]
    /\ ~is_section_end_of[report_type][ln]
    /\ line_stripped_of[ln] # ""
    /\ ~is_header_row_of[ln]

\* C7: in the weekly layout a line of the shape CODE SEQ DESCRIPTION TRADES
\* VOLUME LOW - HIGH AVERAGE scanned in the target section, that is no
\* section header, no end-keyword line and no noise, yields exactly one
\* record: product_code CODE, volume, low_price, high_price and price the
\* normalized VOLUME, LOW, HIGH and AVERAGE, trade count TRADES, category
\* the section name of the subtype, SEQ in no field.
C7_ShapedLineYieldsOneRecord ==
    [][\A ln \in DOMAIN C7_Shaped :
          C7_ScansInSection(ln)
             => /\ Emits
                /\ SubSeq(pricing_data', 1, Len(pricing_data)) = pricing_data
                /\ Emitted = C7_Record(C7_Shaped[ln], report_type)
                /\ pc' = "weekly"]_vars

\* the same for the shaped lines whose trade count and volume are below
\* 2^1024 - 2^970
C7_ShapedLineBelowOverflow ==
    [][\A ln \in DOMAIN C7_Shaped :
          (C7_ScansInSection(ln) /\ Len(ln) < Len(FLOAT_OVERFLOW))
             => /\ Emits
                /\ SubSeq(pricing_data', 1, Len(pricing_data)) = pricing_data
                /\ Emitted = C7_Record(C7_Shaped[ln], report_type)
                /\ pc' = "weekly"]_vars

\* a weekly scan that raised on a shaped line instead of emitting a record
C7_Witness ==
    /\ report_type \in WEEKLY_TYPES
    /\ pc = "raised"
    /\ line \in DOMAIN C7_Shaped

\* ---- C8 ----------------------------------------------------------------
\* C8: in the daily layout the grammar is chosen by the active section: a
\* record emitted while the section is "Ground Beef" has product_code None
\* and as product_name the line's text before the trade count; a record
\* emitted in any other section has as product_code the line's leading
\* token; in both cases category is the active section.
C8_GrammarBySection ==
    [][(pc = "daily" /\ Emits)
          => /\ Scans
             /\ Emitted.category = current_section
             /\ IF current_section = "Ground Beef"
                THEN /\ Emitted.product_code = None
                     /\ Emitted.product_name \in text_before_trades_of[line']
                ELSE /\ current_section \in
                           {"Choice, Select & Ungraded", "Choice Cuts", "Select Cuts"}
                     /\ Emitted.product_code = first_token_of[line']]_vars

\* one line read with both grammars: its record of the Ground Beef section
\* has no code and the whole leading text as name, its record of another
\* section has the leading token as code
C8_Witness ==
    /\ \E r \in Records :
          /\ r.category = "Ground Beef"
          /\ r.product_code = None
          /\ r.product_name = "109E 1 Rib, ribeye"
    /\ \E r \in Records :
          /\ r.category # "Ground Beef"
          /\ r.product_code = "109E"

\* ---- C9 ----------------------------------------------------------------
\* C9: in the pork layout a record of a line with parsed name N has
\* product_name "<category> - N" when a category is current at that line and
\* exactly N when no category header has been accepted yet; its category is
\* that current category (None if none) and its product_code is None.
C9_PorkProductName ==
    [][(pc = "pork" /\ Emits)
          => /\ Scans
             /\ Emitted.additional_data.sub_primal \in text_before_pounds_of[line']
             /\ Emitted.product_code = None
             /\ Emitted.category = current_category
             /\ IF category_headers = {}
                THEN /\ current_category = None
                     /\ Emitted.product_name = Emitted.additional_data.sub_primal
                ELSE /\ \E h \in category_headers : current_category = line_stripped_of[h]
                     /\ Emitted.product_name =
                           current_category \o " - " \o Emitted.additional_data.sub_primal]_vars

\* a record emitted before any category header and one emitted under "Loin"
C9_Witness ==
    /\ \E r \in Records :
          r.category = None /\ r.product_name = "1/4 Trimmed Loin VAC"
    /\ \E r \in Records :
          r.category = "Loin" /\ r.product_name = "Loin - 1/4 Trimmed Loin VAC"

\* ---- C10 ---------------------------------------------------------------
\* C10: in the pork layout a row whose volume, low price, high price or
\* average is zero or cannot be normalized produces no record: every pork
\* record has volume, low_price, high_price and price present and > 0.
C10_PorkValuesPositive ==
    \A r \in Records :
        r.report_type = "pork_cuts"
           => /\ Positive(r.volume) /\ IsInt(r.volume)
              /\ Positive(r.low_price)
              /\ Positive(r.high_price)
              /\ Positive(r.price)

\* a row with a zero low price, scanned in the data section after a record
\* was emitted, left the list as it was
C10_Witness ==
    /\ pc = "pork"
    /\ in_data_section
    /\ Len(pricing_data) = 1
    /\ line_idx = 3
    /\ line = "1/4 Trimmed Loin VAC 171,141 0.00 - 109.90 97.72"

\* ---- C11 ---------------------------------------------------------------
\* C11: every record the parser returns carries a meat_type: "pork" for the
\* records of the pork layout, "beef" for those of the weekly and daily
\* layouts.
C11_EveryRecordCarriesMeatType ==
    \A r \in Records :
        /\ "meat_type" \in DOMAIN r
        /\ r.meat_type = IF r.report_type = "pork_cuts" THEN "pork" ELSE "beef"

\* what the parser does: the pork records carry meat_type "pork", the
\* weekly and daily records carry no meat_type at all
C11_OnlyPorkRecordsCarryMeatType ==
    \A r \in Records :
        IF r.report_type = "pork_cuts"
        THEN "meat_type" \in DOMAIN r /\ r.meat_type = "pork"
        ELSE "meat_type" \notin DOMAIN r

\* a weekly or daily call that returned a record without meat_type
C11_Witness ==
    /\ pc = "returned"
    /\ report_type \in {"branded_beef", "ungraded_beef", "daily_afternoon"}
    /\ \E r \in Records : "meat_type" \notin DOMAIN r

\* ---- C12 ---------------------------------------------------------------
\* the record r was built from the line ln: it holds the leading code, or
\* the leading text, of that line
BuiltFrom(r, ln) ==
    IF "imps_code" \in DOMAIN r.additional_data /\ r.product_code # None
    THEN r.product_code = first_token_of[ln]
    ELSE IF "imps_code" \in DOMAIN r.additional_data
    THEN r.product_name \in text_before_trades_of[ln]
    ELSE r.additional_data.sub_primal \in text_before_pounds_of[ln]

\* C12: the output keeps the input order: a step scans one line and appends
\* at most one record, built from that line, at the end of the list; the
\* records already in the list are never reordered, merged or removed.  The
\* lines being scanned in input order, the source line of an earlier record
\* precedes that of a later one.
C12_OutputKeepsInputOrder ==
    [][/\ Len(pricing_data') \in {Len(pricing_data), Len(pricing_data) + 1}
       /\ SubSeq(pricing_data', 1, Len(pricing_data)) = pricing_data
       /\ Emits => (Scans /\ BuiltFrom(Emitted, line'))]_vars

\* two records in the order of their lines: "109E ..." scanned before
\* "114A ..."
C12_Witness ==
    /\ Len(pricing_data) = 2
    /\ pricing_data[1].product_code = "109E"
    /\ pricing_data[2].product_code = "114A"
    /\ line = "114A 3 Chuck 5 , 1.00 - 2.00 ."

\* ---- C16 ---------------------------------------------------------------
\* the line ln, scanned in this state, is a soft failure: no section or
\* data-start marker, no weekly end line, and it matches neither the
\* grammar that applies nor (pork) the category heuristic
SoftFailure(ln) ==
    \/ /\ pc = "weekly"
       /\ ~is_target_section_of[report_type][ln]
       /\ ~is_section_end_of[report_type][ln]
       /\ parse_data_line_of[ln].outcome = "None"
    \/ /\ pc = "daily"
       /\ first_marker_of[ln] = 0
       /\ IF current_section = "Ground Beef"
          THEN parse_ground_beef_line_of[ln].outcome = "None"
          ELSE parse_data_line_of[ln].outcome = "None"
    \/ /\ pc = "pork"
       /\ ~is_data_section_header_of[ln]
       /\ parse_pork_line_of[ln].outcome = "None"
       /\ ~is_pork_category_header_of[ln]

\* C16: a soft failure never aborts or disturbs the scan: in every layout a
\* line that is a soft failure leaves the record list and the classifier
\* state (section, category, in-section flags) as they were, and the scan
\* goes on, so that the later lines are examined as if the line were absent.
C16_SoftFailureChangesNothing ==
    [][(Scans /\ SoftFailure(line'))
          => /\ pc' = pc
             /\ UNCHANGED << pricing_data, in_target_section, current_category,
                             current_section, in_data_section >>]_vars

\* in each layout a line that matches nothing was scanned where lines are
\* parsed, with a record in hand
C16_Witness ==
    /\ pricing_data # <<>>
    /\ line = "Rib, ribeye" \/ line = "Trimmed VAC"
    /\ \/ pc = "weekly" /\ in_target_section
       \/ pc = "daily" /\ current_section # None
       \/ pc = "pork" /\ in_data_section /\ current_category # None

\* ---- C17 ---------------------------------------------------------------
\* C17: in the weekly layout, in the target section, every line that holds
\* an end keyword of the subtype ends the scan, whatever else it holds:
\* neither that line nor a later one produces a record and the records
\* emitted before are returned unchanged.
C17_EndKeywordAlwaysEndsScan ==
    [][/\ (/\ pc = "weekly" /\ Scans /\ in_target_section
           /\ is_section_end_of[report_type][line'])
          => (pc' = "returned" /\ pricing_data' = pricing_data)
       /\ pc = "returned" => pricing_data' = pricing_data]_vars

\* a line that holds an end keyword and every target keyword was scanned in
\* the target section, and the scan went on
C17_Witness ==
    /\ pc = "weekly"
    /\ report_type = "ungraded_beef"
    /\ line_idx >= 2
    /\ pricing_data # <<>>
    /\ line = "Choice, Select & Ungraded Cuts, Fat Limitations 1-6"

\* ---- C18 ---------------------------------------------------------------
\* C18: the weekly scan starts outside the target section and only a line
\* that holds every target keyword of the subtype moves it inside: no line
\* before the first such line produces a record, and a line that holds
\* every target keyword produces no record itself, outside or inside the
\* section.
C18_OnlyHeaderOpensSection ==
    [][/\ (pc \in {"ready", "lines"} /\ pc' = "weekly") => ~in_target_section'
       /\ (pc = "weekly" /\ Scans)
             => /\ (~in_target_section /\ in_target_section')
                      => is_target_section_of[report_type][line']
                /\ (~in_target_section \/ is_target_section_of[report_type][line'])
                      => pricing_data' = pricing_data
                /\ is_target_section_of[report_type][line']
                      => (in_target_section' /\ pc' = "weekly")]_vars

\* a well-formed line scanned before the header produced nothing, the
\* header then opened the section
C18_Witness ==
    /\ pc = "weekly"
    /\ line_idx = 2
    /\ in_target_section
    /\ pricing_data = <<>>
    /\ is_target_section_of[report_type][line]

\* ---- C19 ---------------------------------------------------------------
\* the entries of the ordered section list whose keywords a line holds
matching_sections_of ==
    [ln \in LINES |->
        {k \in 1..4 :
            \A kw \in (<< {"choice, select & ungraded", "fat limitations"},
                          {"gb - steer/heifer source", "10 pound chub"},
                          {"choice cuts", "fat limitations"},
                          {"select cuts", "fat limitations"} >>)[k] :
                Contains(strip(lower(ln)), kw)}]

\* C19: in the daily layout section matching is first-match-wins over the
\* ordered list (Choice, Select & Ungraded; Ground Beef; Choice Cuts; Select
\* Cuts) and runs on every line in every state: after a line that holds the
\* keywords of one or more entries the current section is the earliest such
\* entry and the line yields no record; after a line that matches no entry
\* the section is unchanged; no line produces a record before the first
\* matching line.
C19_FirstMatchingSectionWins ==
    [][(pc = "daily" /\ Scans)
          => /\ IF matching_sections_of[line'] # {}
                THEN /\ current_section' =
                           (<< "Choice, Select & Ungraded", "Ground Beef",
                               "Choice Cuts", "Select Cuts" >>)
                               [SetMin(matching_sections_of[line'])]
                     /\ pricing_data' = pricing_data
                ELSE current_section' = current_section
             /\ current_section = None => pricing_data' = pricing_data]_vars

\* a line that holds the keywords of Choice Cuts and of Select Cuts, scanned
\* in another section with a record in hand, made Choice Cuts current
C19_Witness ==
    /\ pc = "daily"
    /\ line = "Choice Cuts and Select Cuts, Fat Limitations 1-6"
    /\ matching_sections_of[line] = {3, 4}
    /\ current_section = "Choice Cuts"
    /\ pricing_data # <<>>
    /\ pricing_data[1].category # "Choice Cuts"

\* ---- C20 ---------------------------------------------------------------
\* the line holds both "pounds" and "price", in any case
holds_pounds_and_price_of ==
    [ln \in LINES |-> Contains(lower(ln), "pounds") /\ Contains(lower(ln), "price")]

\* C20: the pork scan is outside the data section until the first line that
\* holds both "pounds" and "price": a line before it has no effect (no
\* record, no category), the marker is recognized although the noise filter
\* takes it for a header, the marker produces no record, and once inside
\* the data section the scan never leaves it.
C20_DataStartMarker ==
    [][/\ (pc \in {"ready", "lines"} /\ pc' = "pork") => ~in_data_section'
       /\ (pc = "pork" /\ Scans)
             => /\ (~in_data_section /\ ~holds_pounds_and_price_of[line'])
                      => UNCHANGED << pc, pricing_data, current_category,
                                      in_data_section, category_headers >>
                /\ holds_pounds_and_price_of[line']
                      => /\ in_data_section'
                         /\ UNCHANGED << pc, pricing_data, current_category >>
                /\ in_data_section => in_data_section']_vars

\* a marker line that the noise filter takes for a header opened the data
\* section after lines that had no effect
C20_Witness ==
    /\ pc = "pork"
    /\ line_idx >= 3
    /\ line = "Item Pounds Price Range Weighted Average"
    /\ is_header_row_of[line]
    /\ in_data_section
    /\ pricing_data = <<>>
    /\ current_category = None

\* ---- C13 ---------------------------------------------------------------
\* the current call and the first call of the series were given the same
\* arguments: the same report type, the same number of lines and, as far as
\* both read them, the same lines
SameArguments(first) ==
    /\ first.report_type = report_type
    /\ first.n_lines = n_lines
    /\ \A k \in DOMAIN first.lines \cap DOMAIN lines_read :
          first.lines[k] = lines_read[k]

\* C13: parse_pricing_data is deterministic and keeps no state from call to
\* call: a call given the arguments of the first call of the series ends as
\* the first call did, with the same record list, whatever calls were made
\* in between.
C13_SameArgumentsSameResult ==
    (pc \in {"returned", "raised"} /\ first_call # <<>>
        /\ SameArguments(first_call[1]))
       => /\ first_call[1].outcome = pc
          /\ first_call[1].lines = lines_read
          /\ first_call[1].result = pricing_data

\* the third call of a series repeats the first one, which returned a
\* record, after a call that left the scan in another state
C13_Witness ==
    /\ calls = 2
    /\ pc = "returned"
    /\ first_call # <<>>
    /\ SameArguments(first_call[1])
    /\ first_call[1].result # <<>>
    /\ pricing_data # <<>>

\* ---- C14 ---------------------------------------------------------------
\* the text holds a digit
HoldsDigit(str) == \E i \in 1..Len(str) : Ch(str, i) \in DIGITS

\* the value is a number of the mode asked for
OfMode(value, as_integer) ==
    /\ value # None
    /\ IF as_integer THEN IsInt(value)
       ELSE value \in {"inf", "-inf"} \/ \E i \in 1..Len(value) : Ch(value, i) = "."

\* tokens with the value of their first signed numeric substring, as a
\* decimal and as an integer
C14_Values ==
    ("$1,266.00" :> << "1266.0", "1266" >>)
    @@ (" 119191 " :> << "119191.0", "119191" >>)
    @@ ("-7.5%" :> << "-7.5", "-7" >>)
    @@ ("$ -1,266.5" :> << "-1266.5", "-1266" >>)
    @@ ("abc 0.00" :> << "0.0", "0" >>)
    @@ ("7." :> << "7.0", "7" >>)

\* C14: the number normalizer, for every token and mode, strips currency
\* symbols, thousands separators and surrounding whitespace and returns the
\* value of the first signed numeric substring (an integer in integer mode,
\* a decimal otherwise), returns None when the token holds no digit, and
\* never raises.
C14_NormalizerNeverRaises ==
    pc # "number"
       => /\ pc # "raised"
          /\ ~HoldsDigit(token_text) => extracted = None
          /\ HoldsDigit(token_text) => OfMode(extracted, integer_mode)
          /\ token_text \in DOMAIN C14_Values
                => extracted = C14_Values[token_text][IF integer_mode THEN 2 ELSE 1]

\* the same for the calls that are not in integer mode on a token of
\* 2^1024 - 2^970 or more
C14_NormalizerBelowOverflow ==
    (pc # "number" /\ ~(integer_mode /\ Len(token_text) >= Len(FLOAT_OVERFLOW)))
       => /\ pc # "raised"
          /\ ~HoldsDigit(token_text) => extracted = None
          /\ HoldsDigit(token_text) => OfMode(extracted, integer_mode)
          /\ token_text \in DOMAIN C14_Values
                => extracted = C14_Values[token_text][IF integer_mode THEN 2 ELSE 1]

\* a call in integer mode that raised
C14_Witness ==
    /\ pc = "raised"
    /\ integer_mode
    /\ token_text = FLOAT_OVERFLOW

\* ---- C15 ---------------------------------------------------------------
\* C15: when the extraction of the lines fails, parse ends in the error
\* outcome: the failure reaches the caller, extraction was attempted exactly
\* once, no line is scanned and no record list, not even an empty one, is
\* returned.
C15_ExtractionFailureIsFatal ==
    /\ Len(extraction) <= 1
    /\ (extraction # <<>> /\ extraction[1] = "failed")
          => /\ pc = "raised"
             /\ line_idx = 0
             /\ n_lines = 0
             /\ pricing_data = <<>>

\* parse ended by the failure of its one extraction
C15_Witness ==
    /\ extraction = << "failed" >>
    /\ pc = "raised"
    /\ report_type \in REPORT_TYPES

\* ---- C21 ---------------------------------------------------------------
\* the line holds a word of the noise vocabulary, in any case
holds_noise_word_of ==
    [ln \in LINES |-> \E word \in header_indicators : Contains(lower(ln), word)]

\* this step scans, in the pork data section, a line that reaches the
\* pork-cut grammar: not empty, not the data-start marker, no noise
ReachesPorkGrammar ==
    /\ pc = "pork" /\ Scans /\ in_data_section
    /\ line_stripped_of[line'] # ""
    /\ ~holds_pounds_and_price_of[line']
    /\ ~holds_noise_word_of[line']

\* C21: in the pork data section, a line that the pork-cut grammar does not
\* take for a product line and that the category heuristic accepts becomes
\* the current category, as its full stripped text, and produces no record;
\* a line that the grammar takes emits its record, with the current
\* category, and leaves the current category as it is; the current
\* category changes at no other line, so that every record between two
\* accepted headers carries the text of the first.
C21_HeaderSetsCategory ==
    [][/\ ReachesPorkGrammar
          => /\ (parse_pork_line_of[line'].outcome = "None"
                    /\ is_pork_category_header_of[line'])
                   => /\ current_category' = strip(line')
                      /\ pricing_data' = pricing_data
             /\ parse_pork_line_of[line'].outcome = "dict"
                   => /\ Emits
                      /\ Emitted.category = current_category
                      /\ current_category' = current_category
       /\ (pc = "pork" /\ current_category' # current_category)
          => /\ ReachesPorkGrammar
             /\ parse_pork_line_of[line'].outcome = "None"
             /\ is_pork_category_header_of[line']]_vars

\* a second header replaced the first and the record after it carries the
\* second
C21_Witness ==
    /\ pc = "pork"
    /\ category_headers = {"Loin", "Sirloin "}
    /\ current_category = "Sirloin"
    /\ Len(pricing_data) = 1
    /\ pricing_data[1].category = "Sirloin"
    /\ pricing_data[1].product_name = "Sirloin - 1/4 Trimmed Loin VAC"

\* ---- C24 ---------------------------------------------------------------
\* lines whose volume token and average token hold no digit
C24_StandardLine == "114A 3 Chuck 5 , 1.00 - 2.00 ."

C24_GroundBeefLine == "Ground Beef 81% 4 , 1.00 - 2.00 ."

\* a pork line whose volume token holds no digit
C24_PorkLine == "Tenderloin , 1.00 - 2.00 1.50"

\* the record has its volume and price null and its other fields populated
C24_NullVolumeAndPrice(r, name, code, trades) ==
    /\ r.volume = None
    /\ r.price = None
    /\ r.low_price = "1.0"
    /\ r.high_price = "2.0"
    /\ r.product_name = name
    /\ r.product_code = code
    /\ r.additional_data.num_trades = trades

\* C24: a numeric token that cannot be normalized is a soft failure: in the
\* weekly and daily layouts a line that matches the standard-cut or the
\* ground-beef grammar with a volume or price token that holds no digit
\* still yields its record, with exactly that field null and the other
\* fields populated; in the pork layout the row is rejected and no record
\* is emitted.
C24_NullFieldOrRejectedRow ==
    [][/\ C7_ScansInSection(C24_StandardLine)
          => /\ Emits
             /\ C24_NullVolumeAndPrice(Emitted, "114A - Chuck", "114A", "5")
       /\ (pc = "daily" /\ Scans /\ current_section \notin {None, "Ground Beef"}
              /\ line' = C24_StandardLine)
          => /\ Emits
             /\ C24_NullVolumeAndPrice(Emitted, "114A - Chuck", "114A", "5")
       /\ (pc = "daily" /\ Scans /\ current_section = "Ground Beef"
              /\ line' = C24_GroundBeefLine)
          => /\ Emits
             /\ C24_NullVolumeAndPrice(Emitted, "Ground Beef 81%", None, "4")
       /\ (pc = "pork" /\ Scans /\ in_data_section /\ line' = C24_PorkLine)
          => pricing_data' = pricing_data]_vars

\* a weekly record with null volume and price is in the list
C24_Witness ==
    /\ pc = "weekly"
    /\ line = C24_StandardLine
    /\ pricing_data # <<>>
    /\ pricing_data[Len(pricing_data)].volume = None
    /\ pricing_data[Len(pricing_data)].price = None
    /\ pricing_data[Len(pricing_data)].low_price = "1.0"

\* ---- C25 ---------------------------------------------------------------
\* C25: a noise line is skipped whatever the section: in every layout and
\* every state of the scan, a line that holds a word of the noise
\* vocabulary, in any case, produces no record, even when it is a
\* well-formed row of the active grammar, and in the pork data section it
\* leaves the current category as it is.
C25_NoiseLineIsSkipped ==
    [][(Scans /\ holds_noise_word_of[line'])
          => /\ pricing_data' = pricing_data
             /\ (pc = "pork" /\ in_data_section)
                   => current_category' = current_category]_vars

\* a well-formed pork row that holds "total" and starts with no known
\* category word was scanned in the data section, after a header and a
\* record
C25_Witness ==
    /\ pc = "pork"
    /\ in_data_section
    /\ line = "Total Loin 10 1.00 - 2.00 1.50"
    /\ current_category = "Loin"
    /\ Len(pricing_data) = 1

\* ---- C27 ---------------------------------------------------------------
\* the stripped line has the shape NAME VOLUME LOW - HIGH AVERAGE
pork_row_shape_of ==
    [ln \in LINES |-> LazyEnd(strip(ln), 1, PRICE_COLUMNS) # 0]

\* the lowered, stripped line is a known category word or starts with one
\* and a space
starts_with_known_category_of ==
    [ln \in LINES |-> \E cat \in known_categories :
                          \/ strip(lower(ln)) = cat
                          \/ startswith(strip(lower(ln)), cat \o " ")]

\* C27: in the pork data section a line of the pork row shape never changes
\* the current category, whether it yields a record or is dropped because
\* one of its four numbers is zero or absent; a dropped row leaves the
\* record list as it is.
C27_ShapedRowKeepsCategory ==
    [][(pc = "pork" /\ Scans /\ in_data_section /\ pork_row_shape_of[line'])
          => /\ current_category' = current_category
             /\ parse_pork_line_of[line'].outcome = "None"
                   => pricing_data' = pricing_data]_vars

\* the same for the rows that do not start with a known category word
C27_ShapedRowKeepsCategoryUnlessKnownWord ==
    [][(pc = "pork" /\ Scans /\ in_data_section /\ pork_row_shape_of[line']
           /\ ~starts_with_known_category_of[line'])
          => /\ current_category' = current_category
             /\ parse_pork_line_of[line'].outcome = "None"
                   => pricing_data' = pricing_data]_vars

\* a dropped row became the category of the record after it
C27_Witness ==
    /\ pc = "pork"
    /\ current_category = "Ham 23-27# Trmd Selected Ham 0 61.00 - 70.00 65.43"
    /\ pricing_data # <<>>
    /\ pricing_data[Len(pricing_data)].category = current_category

\* ---- C22 ---------------------------------------------------------------
\* the line, lowered and stripped, begins with the letters of a known
\* category word
BeginsWithKnownLetters(str) ==
    \E cat \in known_categories : startswith(strip(lower(str)), cat)

\* the line, lowered and stripped, is a known category word or begins with
\* one that a space follows
LedByKnownWord(str) ==
    \E cat \in known_categories :
        \/ strip(lower(str)) = cat
        \/ startswith(strip(lower(str)), cat \o " ")

Disqualified(str) ==
    \/ endswith(strip(str), "-")
    \/ Len(str) > 30
    \/ HasPricePattern(str)
    \/ HasLargeNumber(str)
    \/ \E word \in skip_patterns : Contains(lower(str), word)

\* C23: a line that is not led by a known category word is accepted if and
\* only if no disqualifier holds (it ends in a hyphen, is longer than 30
\* characters, holds a number with two decimal places, holds a run of 3 or
\* more digits, holds a skip word) and it has at most two words and no
\* digit at all.
C23_ShortTextAccepted ==
    (verdict # "" /\ ~LedByKnownWord(candidate))
       => (verdict = "accepted"
              <=> /\ ~Disqualified(candidate)
                  /\ WordCount(candidate) <= 2
                  /\ ~HasDigit(candidate))

\* a line of two words without digits was rejected for its skip word
C23_Witness ==
    /\ candidate = "Trimmed VAC"
    /\ verdict = "rejected"
    /\ WordCount(candidate) = 2
    /\ ~HasDigit(candidate)

\* ---- C26 ---------------------------------------------------------------
\* the row has the key of the record: product, report date, category and
\* report type
SameKey(row, record) ==
    /\ row.product_id = record.product_id
    /\ row.report_date = record.report_date
    /\ row.category = record.category
    /\ row.report_type = record.report_type

\* this step is a call of insert_price that returned True
InsertsPrice == price_calls' = price_calls + 1 /\ inserted' = "True"

\* the call of this step updated a row that has the key of its record, or
\* inserted a row, and left every row with another key as it was
KeepsOtherKeys ==
    /\ \/ \E k \in DOMAIN usda_prices :
             /\ SameKey(usda_prices[k], price_data'[1])
             /\ usda_prices' =
                   [usda_prices EXCEPT ![k] = UpdatedRow(usda_prices[k], price_data'[1])]
       \/ usda_prices' = Append(usda_prices, InsertedRow(price_data'[1]))
    /\ \A k \in DOMAIN usda_prices :
          ~SameKey(usda_prices[k], price_data'[1])
             => usda_prices'[k] = usda_prices[k]

\* C26: the rows of usda_prices are keyed by product, report date, category
\* and report type: every call of insert_price either updates a row whose
\* four key values equal those of the incoming record or inserts a row, and
\* never changes the key or the values of a row with another key, also
\* when the category of the incoming record is null.
C26_KeyedByProductDateCategoryType ==
    [][InsertsPrice => KeepsOtherKeys]_vars

\* the same for the calls whose record holds a category
C26_KeyedWhenCategoryGiven ==
    [][(InsertsPrice /\ price_data'[1].category # None) => KeepsOtherKeys]_vars

\* a call with a null category updated the row of another category
C26_Witness ==
    /\ inserted = "True"
    /\ replaced # <<>>
    /\ price_data[1].category = None
    /\ replaced[1].category = "Loin"
    /\ Len(usda_prices) = 1
    /\ usda_prices[1].category = None

\* ---- C28 ---------------------------------------------------------------
\* process_report has returned
Returned == step \in {"True", "False"}

\* C28: whenever process_report returns after insert_report gave it a
\* report id, on every path (parse failure, empty parse result, save
\* failure, an exception between the creation of the record and parsing),
\* the status of that report is 'completed' or 'failed': no report is left
\* in status 'processing'.
C28_NoReportLeftProcessing ==
    (Returned /\ report_id # None)
       => usda_reports[report_id] \in {"completed", "failed"}

\* the same for the calls under which neither os.rename nor the status
\* update failed
C28_NoReportLeftProcessingUnlessFault ==
    (Returned /\ report_id # None /\ faults \cap {"rename", "update"} = {})
       => usda_reports[report_id] \in {"completed", "failed"}

\* a call created the report row and returned False on a failed rename,
\* leaving the row in status 'processing'
C28_Witness ==
    /\ step = "False"
    /\ report_id # None
    /\ faults = {"rename"}
    /\ reports_at_call[report_id] = "absent"
    /\ usda_reports[report_id] = "processing"

\* ---- C29 ---------------------------------------------------------------
\* C29: process_report called without force for a report type and date
\* that have a row in usda_reports parses nothing, writes nothing to the
\* database (report status, products and prices as before) and returns
\* True, whatever the status of the row.
C29_ExistingReportIsSkipped ==
    (Returned /\ ~force /\ report_date # None
        /\ reports_at_call[report_date] # "absent")
       => /\ step = "True"
          /\ ~parsed_pdf
          /\ written = {}
          /\ usda_reports = reports_at_call

\* the same for the calls under which nothing failed
C29_ExistingReportIsSkippedUnlessFault ==
    (Returned /\ ~force /\ report_date # None /\ faults = {}
        /\ reports_at_call[report_date] # "absent")
       => /\ step = "True"
          /\ ~parsed_pdf
          /\ written = {}
          /\ usda_reports = reports_at_call

\* a call without force, whose existence query failed, parsed the PDF of a
\* report stored as 'failed' and set it to 'completed'
C29_Witness ==
    /\ step = "True"
    /\ ~force
    /\ faults = {"query"}
    /\ report_date # None
    /\ reports_at_call[report_date] = "failed"
    /\ usda_reports[report_date] = "completed"
    /\ parsed_pdf
    /\ "usda_prices" \in written

\* ---- C30 ---------------------------------------------------------------
\* C30: when process_report returns after a successful download, on every
\* return path (report exists, record creation failed, no data extracted,
\* parse error, nothing saved, success), the PDF file it downloaded is no
\* longer in the temp directory, under its temporary or its dated name.
C30_DownloadedFileRemoved ==
    (Returned /\ report_date # None) => pdf_path \notin temp_files

\* the same for the paths on which the code removes the file: the report
\* exists, the record creation failed, success
C30_DownloadedFileRemovedWhereCleaned ==
    (Returned /\ report_date # None /\ faults \subseteq {"insert"}
        /\ (parsed_pdf => step = "True" /\ "usda_prices" \in written))
       => pdf_path \notin temp_files

\* a call under which nothing failed returned True on an empty parse
\* result and left the dated file in the temp directory
C30_Witness ==
    /\ step = "True"
    /\ faults = {}
    /\ parsed_pdf
    /\ written = {"usda_reports"}
    /\ pdf_path = report_date
    /\ pdf_path \in temp_files

====
